---- MODULE Spec2Model ----
(***************************************************************************)
(* ResumeCraft: the paginated PDF layout engine of                         *)
(* client/src/lib/pdf-generator.ts (the jsPDF version, lines 388-995).     *)
(*                                                                         *)
(* Lengths are exact rationals held as integers in units of 1/SCALE mm.    *)
(* SCALE = 144000 makes every length of the source an integer:             *)
(*   lineHeightMM(fs) = fs * 1.15 * 25.4 / 72 mm = fs * 58420 units,       *)
(* and the factors 0.95, 0.9, 0.8, 0.6 and the gaps 1.5, 2.5, 1.2 keep it  *)
(* integral.                                                               *)
(***************************************************************************)
EXTENDS Integers, Sequences, FiniteSets, TLC

VARIABLES
    cy, creq, cres, cpc,          \* cursor functions applied to drawn inputs
    gskills, gbuckets, gpc,       \* groupSkillsCaseInsensitive applied to drawn inputs
    data,                         \* resumeData, the argument of generatePDF
    pc,                           \* position in generatePDF
    y,                            \* let y: the cursor
    pages,                        \* number of pages of doc
    i,                            \* index of the entry of the running for-of loop
    b,                            \* index of the bullet / bucket of the inner loop
    j,                            \* index of the wrapped line of the innermost loop
    ret,                          \* where writeParagraph returns to
    buckets,                      \* const buckets of the skills section
    trace,                        \* cursor operations of the last step, in order
    log,                          \* every draw call on doc so far, in order
    saved,                        \* the artifacts doc.save has produced, in order
    err,                          \* the exception the call ended with, "none" if none
    active,                       \* the invocation whose locals the variables above hold
    other,                        \* the locals of the other invocation of generatePDF
    lurl, ltarget, lpc,           \* drawLink applied to drawn inputs
    hpc,                          \* position in handleDownloadPDF
    clicks,                       \* how often handleDownloadPDF has been called
    isGeneratingPDF,              \* the state of the Download PDF button
    consoleErrors,                \* what console.error has been called with
    notifications,                \* what the user has been shown about a failure
    resumes,                      \* MemStorage.resumes: Map<string, Resume>
    uuids,                        \* how many UUIDs randomUUID has returned
    clock,                        \* the time new Date() returns
    sres,                         \* the last call of a MemStorage method and its result
    currentStep,                  \* ResumeBuilder: useState(1)
    resumeId,                     \* ResumeBuilder: useState(id || null), 0 for null
    saves                         \* the calls of saveResume of the session, in order

cursorVars == <<cy, creq, cres, cpc>>
groupVars == <<gskills, gbuckets, gpc>>
linkVars == <<lurl, ltarget, lpc>>
callVars == <<err, active, other>>
pdfVars == <<data, pc, y, pages, i, b, j, ret, buckets, trace, log, saved, callVars>>
handlerVars == <<hpc, clicks, isGeneratingPDF, consoleErrors, notifications>>
storeVars == <<resumes, uuids, clock, sres>>
builderVars == <<currentStep, resumeId, saves>>
appVars == <<handlerVars, storeVars, builderVars>>
vars == <<cursorVars, groupVars, linkVars, pdfVars, appVars>>

(***************************************************************************)
(* Layout constants                                                        *)
(***************************************************************************)
SCALE == 144000
MARGIN == 15 * SCALE
PAGE_W == 210 * SCALE
PAGE_H == 297 * SCALE
CONTENT_W == PAGE_W - MARGIN * 2

NAME_SIZE == 22
SECTION_TITLE_SIZE == 13
SUBHEADING_SIZE == 11
BODY_SIZE == 10
META_SIZE == 9

GAP_BEFORE_SECTION == 6 * SCALE
INTER_BLOCK_GAP == 2 * SCALE
COMPANY_GAP_BEFORE == 3 * SCALE
COMPANY_GAP_AFTER == 3 * SCALE
INSTITUTION_GAP_BEFORE == 3 * SCALE
INSTITUTION_GAP_AFTER == 3 * SCALE
SKILLS_INLINE_GAP == 2 * SCALE
NEW_CATEGORY_GAP_BEFORE == 4 * SCALE
CATEGORY_GAP_AFTER == (5 * SCALE) \div 2
SKILLS_TAIL_PAD == 2 * SCALE
PROJECT_AFTER_TITLE_GAP == 2 * SCALE

\* the gap after each bullet (y += 1.5) and after each certificate (y += 1.2)
BULLET_GAP == (3 * SCALE) \div 2
CERT_GAP == (6 * SCALE) \div 5
\* the rule of a section header is drawn at y + 2
HEADER_RULE_OFFSET == 2 * SCALE
HEADER_PAD == 2 * SCALE
HEADER_RESERVE == 6 * SCALE
PHOTO_SIZE == 24 * SCALE

(***************************************************************************)
(* Helpers                                                                 *)
(***************************************************************************)
\* fontSize * getLineHeightFactor() * 25.4 / 72, with jsPDF's factor 1.15:
\* 1.15 * 25.4 / 72 = 2921 / 7200 mm per point.
lineHeightMM(fontSize) == fontSize * ((2921 * SCALE) \div 7200)

\* k * x for the decimal factors of the source, given in hundredths
Times(x, hundredths) == (x * hundredths) \div 100

needSpace_BreaksOnExactFit(yy, required) ==
    IF yy + required >= PAGE_H - MARGIN
    THEN [y |-> MARGIN, addPage |-> TRUE]
    ELSE [y |-> yy, addPage |-> FALSE]

needSpace_CompareWithPageHeight(yy, required) ==
    IF yy + required > PAGE_H
    THEN [y |-> MARGIN, addPage |-> TRUE]
    ELSE [y |-> yy, addPage |-> FALSE]

\* needSpace: the new cursor and whether doc.addPage() was called
needSpace(yy, required) ==
    IF yy + required > PAGE_H - MARGIN
    THEN [y |-> MARGIN, addPage |-> TRUE]
    ELSE [y |-> yy, addPage |-> FALSE]

addTopSpacing_WithoutCheck(yy, gap) == [y |-> yy + gap, addPage |-> FALSE]

addTopSpacing(yy, gap) ==
    LET r == needSpace(yy, gap)
    IN  [y |-> r.y + gap, addPage |-> r.addPage]

(***************************************************************************)
(* Strings are sequences of characters.  The characters are named tokens:  *)
(* "a"/"A" an ASCII letter in both cases, "e_acute"/"E_acute" a non-ASCII  *)
(* letter in both cases, " " a space and "wide_sp" the ideographic space   *)
(* U+3000, which NFKC maps to a plain space.                               *)
(***************************************************************************)
Lower(c) ==
    CASE c = "A" -> "a"
      [] c = "E_acute" -> "e_acute"
      [] OTHER -> c

\* String.prototype.normalize("NFKC"), character by character
NFKC(c) == IF c = "wide_sp" THEN " " ELSE c

\* the class \s of a JavaScript regular expression
IsSpace(c) == c \in {" ", "wide_sp"}

normalizeNFKC(s) == [k \in 1..Len(s) |-> NFKC(s[k])]

\* .replace(/\s+/g, " "): every maximal run of whitespace becomes one space
RECURSIVE CollapseFrom(_, _)
CollapseFrom(s, k) ==
    IF k > Len(s) THEN <<>>
    ELSE IF IsSpace(s[k])
         THEN IF k > 1 /\ IsSpace(s[k-1])
              THEN CollapseFrom(s, k + 1)
              ELSE <<" ">> \o CollapseFrom(s, k + 1)
         ELSE <<s[k]>> \o CollapseFrom(s, k + 1)

collapseWhitespace(s) == CollapseFrom(s, 1)

\* .trim()
RECURSIVE TrimLeft(_)
TrimLeft(s) ==
    IF s # <<>> /\ IsSpace(Head(s)) THEN TrimLeft(Tail(s)) ELSE s

RECURSIVE TrimRight(_)
TrimRight(s) ==
    IF s # <<>> /\ IsSpace(s[Len(s)])
    THEN TrimRight(SubSeq(s, 1, Len(s) - 1))
    ELSE s

trim(s) == TrimRight(TrimLeft(s))

toLowerCase(s) == [k \in 1..Len(s) |-> Lower(s[k])]

\* (s.category ?? "").normalize("NFKC").replace(/\s+/g, " ").trim()
originalOf(category) == trim(collapseWhitespace(normalizeNFKC(category)))

normalizeCategoryKey(raw) == toLowerCase(originalOf(raw))

\* /[A-Z]/.test(s): only the ASCII capitals count
AsciiUpper == {"A", "C"}
hasUppercase(s) == \E k \in 1..Len(s) : s[k] \in AsciiUpper

\* the literal "Category"
CategoryLabel == <<"C", "a", "t", "e", "g", "o", "r", "y">>

\* index of the bucket of a key in the insertion-ordered map, 0 if none
BucketIndex(map, key) ==
    IF \E k \in 1..Len(map) : map[k].key = key
    THEN CHOOSE k \in 1..Len(map) : map[k].key = key
    ELSE 0

\* the label is replaced by every later spelling with a capital
GroupOne_LatestUpperWins(map, s) ==
    LET original == originalOf(s.category)
        key == normalizeCategoryKey(original)
        e == BucketIndex(map, key)
    IN  IF e # 0
        THEN [map EXCEPT ![e] =
                [key |-> key,
                 label |-> IF hasUppercase(original) THEN original ELSE map[e].label,
                 items |-> Append(map[e].items, s)]]
        ELSE Append(map, [key |-> key,
                          label |-> IF original # <<>> THEN original ELSE CategoryLabel,
                          items |-> <<s>>])

\* a later skill of a known category is put in front of the earlier ones
GroupOne_Prepends(map, s) ==
    LET original == originalOf(s.category)
        key == normalizeCategoryKey(original)
        e == BucketIndex(map, key)
    IN  IF e # 0
        THEN [map EXCEPT ![e] =
                [key |-> key,
                 label |-> IF ~hasUppercase(map[e].label) /\ hasUppercase(original)
                           THEN original ELSE map[e].label,
                 items |-> <<s>> \o map[e].items]]
        ELSE Append(map, [key |-> key,
                          label |-> IF original # <<>> THEN original ELSE CategoryLabel,
                          items |-> <<s>>])

\* a new bucket takes the category as it is, also when nothing is left of it
GroupOne_LabelWithoutFallback(map, s) ==
    LET original == originalOf(s.category)
        key == normalizeCategoryKey(original)
        e == BucketIndex(map, key)
    IN  IF e # 0
        THEN [map EXCEPT ![e] =
                [key |-> key,
                 label |-> IF ~hasUppercase(map[e].label) /\ hasUppercase(original)
                           THEN original ELSE map[e].label,
                 items |-> Append(map[e].items, s)]]
        ELSE Append(map, [key |-> key, label |-> original, items |-> <<s>>])

\* one iteration of the loop over the skills
GroupOne(map, s) ==
    LET original == originalOf(s.category)
        key == normalizeCategoryKey(original)
        e == BucketIndex(map, key)
    IN  IF e # 0
        THEN [map EXCEPT ![e] =
                [key |-> key,
                 label |-> IF ~hasUppercase(map[e].label) /\ hasUppercase(original)
                           THEN original ELSE map[e].label,
                 items |-> Append(map[e].items, s)]]
        ELSE Append(map, [key |-> key,
                          label |-> IF original # <<>> THEN original ELSE CategoryLabel,
                          items |-> <<s>>])

RECURSIVE GroupFrom(_, _, _)
GroupFrom(skills, k, map) ==
    IF k > Len(skills) THEN map
    ELSE GroupFrom(skills, k + 1, GroupOne(map, skills[k]))

\* Array.from(map.values()): the buckets in insertion order of their keys
groupSkillsCaseInsensitive(skills) ==
    LET map == GroupFrom(skills, 1, <<>>)
    IN  [k \in 1..Len(map) |-> [label |-> map[k].label, items |-> map[k].items]]

(***************************************************************************)
(* Bounds and input sets                                                   *)
(***************************************************************************)
MaxCatLen == 4          \* longest category string over the ASCII characters
MaxSkills == 3          \* longest skill list over the one-character categories
MaxYHalfMM == 600       \* largest cursor tried, in half millimetres

AsciiChars == {"a", "A", " "}
AllChars == {"a", "A", " ", "e_acute", "E_acute", "wide_sp"}

StringsUpTo(chars, n) == UNION {[1..m -> chars] : m \in 0..n}

\* skill items; the name is the item's position, so every item is distinct
SkillsOf(cats) == [k \in 1..Len(cats) |-> [name |-> k, category |-> cats[k]]]

\* the empty category and the categories of one character
CharCats == {<<>>} \cup {<<c>> : c \in AllChars}

\* the ASCII categories of up to MaxCatLen characters
AsciiCats == StringsUpTo(AsciiChars, MaxCatLen)

\* every "required" and "gap" the source passes to needSpace / addTopSpacing
RequiredChoices ==
    {lineHeightMM(fs) : fs \in {NAME_SIZE, SUBHEADING_SIZE, BODY_SIZE, META_SIZE}}
        \cup {lineHeightMM(SECTION_TITLE_SIZE) + HEADER_RESERVE,
              lineHeightMM(SUBHEADING_SIZE) + 1 * SCALE,
              GAP_BEFORE_SECTION, COMPANY_GAP_BEFORE, NEW_CATEGORY_GAP_BEFORE,
              SKILLS_TAIL_PAD}

\* cursors on a half-millimetre grid, and the ones that make
\* y + required land exactly on the bottom margin
CursorChoices ==
    {(h * SCALE) \div 2 : h \in 30..MaxYHalfMM}
        \cup {PAGE_H - MARGIN - r : r \in RequiredChoices}

(***************************************************************************)
(* Specification of the cursor functions                                   *)
(***************************************************************************)
NoResult == [y |-> 0, addPage |-> FALSE]

\* no other invocation of generatePDF
NoCall == [pc |-> "none"]

GroupIdle == gskills = <<>> /\ gbuckets = <<>> /\ gpc = "idle"
LinkIdle == lurl = <<>> /\ ltarget = <<>> /\ lpc = "idle"
CursorIdle == cy = 0 /\ creq = 0 /\ cres = NoResult /\ cpc = "idle"
PdfIdle ==
    /\ data = <<>> /\ pc = "idle" /\ y = 0 /\ pages = 0
    /\ i = 0 /\ b = 0 /\ j = 0 /\ ret = "idle" /\ buckets = <<>>
    /\ trace = <<>> /\ log = <<>> /\ saved = <<>>
    /\ err = "none" /\ active = 0 /\ other = NoCall

HandlerIdle ==
    /\ hpc = "idle" /\ clicks = 0 /\ isGeneratingPDF = FALSE
    /\ consoleErrors = <<>> /\ notifications = <<>>

NoStorageCall == [n |-> 0, op |-> "none"]

StoreIdle == resumes = <<>> /\ uuids = 0 /\ clock = 0 /\ sres = NoStorageCall

BuilderIdle == currentStep = 0 /\ resumeId = 0 /\ saves = <<>>

AppIdle == HandlerIdle /\ StoreIdle /\ BuilderIdle

InitCursor ==
    /\ cy \in CursorChoices
    /\ creq \in RequiredChoices
    /\ cres = NoResult
    /\ cpc = "start"
    /\ GroupIdle
    /\ LinkIdle
    /\ PdfIdle
    /\ AppIdle

CallNeedSpace ==
    /\ cpc = "start"
    /\ cres' = needSpace(cy, creq)
    /\ cpc' = "needSpace"
    /\ UNCHANGED <<cy, creq, groupVars, linkVars, pdfVars, appVars>>

CallAddTopSpacing ==
    /\ cpc = "start"
    /\ cres' = addTopSpacing(cy, creq)
    /\ cpc' = "addTopSpacing"
    /\ UNCHANGED <<cy, creq, groupVars, linkVars, pdfVars, appVars>>

NextCursor == CallNeedSpace \/ CallAddTopSpacing

SpecCursor == InitCursor /\ [][NextCursor]_vars

(***************************************************************************)
(* normalizeUrl and drawLink                                               *)
(*                                                                         *)
(* A URL is a sequence of pieces: a scheme as it is written, or any other  *)
(* text.  No piece is the beginning of another one.                        *)
(***************************************************************************)
\* a piece with its ASCII letters in lowercase, as the flag i of the regular
\* expression compares it
FoldCase(piece) ==
    CASE piece = "HTTP://" -> "http://"
      [] piece = "MAILTO:" -> "mailto:"
      [] OTHER -> piece

\* u.startsWith(prefix), case-sensitive
startsWith(u, prefix) == u # <<>> /\ u[1] = prefix

\* if (!u) return ""; if (/^https?:\/\//i.test(u)) return u; return `https://${u}`
normalizeUrl(u) ==
    IF u = <<>> THEN <<>>
    ELSE IF FoldCase(u[1]) \in {"http://", "https://"} THEN u
    ELSE <<"https://">> \o u

\* const normalized of drawLink: the target of the link
normalized(url) ==
    IF startsWith(url, "mailto:") \/ startsWith(url, "tel:") THEN url
    ELSE normalizeUrl(url)

MaxUrlLen == 2          \* most pieces of a URL

UrlPieces == {"http://", "HTTP://", "https://", "mailto:", "MAILTO:", "tel:", "x", " "}

\* drawLink is called with a non-empty url only: if (it.url), if (p.url)
UrlChoices == StringsUpTo(UrlPieces, MaxUrlLen) \ {<<>>}

InitLink ==
    /\ lurl \in UrlChoices
    /\ ltarget = <<>>
    /\ lpc = "start"
    /\ CursorIdle
    /\ GroupIdle
    /\ PdfIdle
    /\ AppIdle

CallDrawLink ==
    /\ lpc = "start"
    /\ ltarget' = normalized(lurl)
    /\ lpc' = "done"
    /\ UNCHANGED <<lurl, cursorVars, groupVars, pdfVars, appVars>>

NextLink == CallDrawLink

SpecLink == InitLink /\ [][NextLink]_vars

(***************************************************************************)
(* Specification of the skill grouping                                     *)
(***************************************************************************)
\* every list of up to MaxSkills skills with a category of at most one
\* character, and every pair of skills with ASCII categories
InitGroup ==
    /\ \/ \E m \in 0..MaxSkills : \E cats \in [1..m -> CharCats] :
              gskills = SkillsOf(cats)
       \/ \E m \in 1..2 : \E cats \in [1..m -> AsciiCats] :
              gskills = SkillsOf(cats)
    /\ gbuckets = <<>>
    /\ gpc = "start"
    /\ CursorIdle
    /\ LinkIdle
    /\ PdfIdle
    /\ AppIdle

CallGroupSkills ==
    /\ gpc = "start"
    /\ gbuckets' = groupSkillsCaseInsensitive(gskills)
    /\ gpc' = "done"
    /\ UNCHANGED <<gskills, cursorVars, linkVars, pdfVars, appVars>>

NextGroup == CallGroupSkills

SpecGroup == InitGroup /\ [][NextGroup]_vars

(***************************************************************************)
(* generatePDF                                                             *)
(*                                                                         *)
(* A text is held by what the layout needs of it: a paragraph by the       *)
(* number of lines doc.splitTextToSize wraps it to (0 for the empty        *)
(* string), a description by its newline-separated lines, each 0 when the  *)
(* line is blank and otherwise the number of lines it wraps to.            *)
(***************************************************************************)
Op(kind, yy) == [op |-> kind, y |-> yy]

Draw(sec, item, part, line, pg, yy, text) ==
    [sec |-> sec, item |-> item, part |-> part, line |-> line,
     page |-> pg, y |-> yy, text |-> text]

P(r) == IF r.addPage THEN 1 ELSE 0

Max(m, n) == IF m >= n THEN m ELSE n

\* what one step of generatePDF does to the cursor, the document and the log
Emit(newPc, newY, newPages, ops, draws) ==
    /\ pc' = newPc
    /\ y' = newY
    /\ pages' = newPages
    /\ trace' = ops
    /\ log' = log \o draws

\* formatDate: "" for an empty date, else month and year in en-US
formatDate(dateString) ==
    CASE dateString = "" -> ""
      [] dateString = "2019-11" -> "Nov 2019"
      [] dateString = "2021-03" -> "Mar 2021"
      [] OTHER -> "Invalid Date"

\* sectionHeader: where the title is drawn and the cursor it returns
sectionHeader(yy) ==
    LET lh == lineHeightMM(SECTION_TITLE_SIZE)
        r == needSpace(yy, lh + HEADER_RESERVE)
    IN  [at |-> r.y, y |-> r.y + lh + HEADER_PAD, addPage |-> r.addPage]

\* the header is drawn at the cursor, without the gap before the section
SectionStart_WithoutGap(sec, newPc) ==
    LET h == sectionHeader(y)
        pg == pages + P(h)
    IN  Emit(newPc, h.y, pg,
             <<Op("addTopSpacing", y), Op("needSpace", h.at), Op("header", h.y)>>,
             <<Draw(sec, 0, "header", 1, pg, h.at, <<sec>>),
               Draw(sec, 0, "rule", 1, pg, h.at + HEADER_RULE_OFFSET, <<>>)>>)

\* y = sectionHeader(doc, title, addTopSpacing(doc, y, GAP_BEFORE_SECTION))
SectionStart(sec, newPc) ==
    LET s0 == addTopSpacing(y, GAP_BEFORE_SECTION)
        h == sectionHeader(s0.y)
        pg == pages + P(s0) + P(h)
    IN  Emit(newPc, h.y, pg,
             <<Op("addTopSpacing", s0.y), Op("needSpace", h.at), Op("header", h.y)>>,
             <<Draw(sec, 0, "header", 1, pg, h.at, <<sec>>),
               Draw(sec, 0, "rule", 1, pg, h.at + HEADER_RULE_OFFSET, <<>>)>>)

\* the gap before a section is added although the section is empty
SectionSkip_AddsSectionGap(newPc) ==
    /\ pc' = newPc
    /\ trace' = <<>>
    /\ y' = y + GAP_BEFORE_SECTION
    /\ UNCHANGED <<pages, log>>

\* a section whose data slice is empty: the if is not entered
SectionSkip(newPc) ==
    /\ pc' = newPc
    /\ trace' = <<>>
    /\ UNCHANGED <<y, pages, log>>

\* y += gap, with nothing drawn
AdvanceGap(newPc, gap) ==
    Emit(newPc, y + gap, pages, <<Op("gap", y + gap)>>, <<>>)

(***************************************************************************)
(* Identity block                                                          *)
(***************************************************************************)
\* `${personalDetails.firstName || ""} ${personalDetails.lastName || ""}`.trim()
fullNameOf(pd) == trim(pd.firstName \o <<" ">> \o pd.lastName)

\* "Your Name"
YourName == <<"Y", "o", "u", "r", " ", "N", "a", "m", "e">>

NotSpace(c) == ~IsSpace(c)

\* String(personalDetails.phone).replace(/\s+/g, "")
withoutWhitespace(s) == SelectSeq(s, NotSpace)

\* the phone link keeps the whitespace of the phone number
contactsOf_TelKeepsWhitespace(pd) ==
    (IF pd.email # <<>>
     THEN <<[label |-> pd.email, url |-> <<"mailto:">> \o pd.email]>> ELSE <<>>)
    \o (IF pd.phone # <<>>
        THEN <<[label |-> pd.phone, url |-> <<"tel:">> \o pd.phone]>> ELSE <<>>)
    \o (IF pd.location # <<>> THEN <<[label |-> pd.location, url |-> <<>>]>> ELSE <<>>)

\* the items of the contact line; url <<>> is an item without the property
contactsOf(pd) ==
    (IF pd.email # <<>>
     THEN <<[label |-> pd.email, url |-> <<"mailto:">> \o pd.email]>> ELSE <<>>)
    \o (IF pd.phone # <<>>
        THEN <<[label |-> pd.phone, url |-> <<"tel:">> \o withoutWhitespace(pd.phone)]>>
        ELSE <<>>)
    \o (IF pd.location # <<>> THEN <<[label |-> pd.location, url |-> <<>>]>> ELSE <<>>)

\* what drawInlineCentered draws for its items: a link to the target that
\* drawLink computes where the item has a url, plain text where it has none
drawInlineCentered(items) ==
    [k \in 1..Len(items) |->
        IF items[k].url # <<>>
        THEN [text |-> items[k].label, linked |-> TRUE, link |-> normalized(items[k].url)]
        ELSE [text |-> items[k].label, linked |-> FALSE, link |-> <<>>]]

linksOf(pd) ==
    (IF pd.linkedIn # "" THEN <<[label |-> "LinkedIn", url |-> pd.linkedIn]>> ELSE <<>>)
    \o (IF pd.github # "" THEN <<[label |-> "GitHub", url |-> pd.github]>> ELSE <<>>)
    \o (IF pd.portfolio # "" THEN <<[label |-> "Portfolio", url |-> pd.portfolio]>> ELSE <<>>)

Labels(items) == [k \in 1..Len(items) |-> items[k].label]

DrawName ==
    /\ pc = "name"
    /\ LET lh == lineHeightMM(NAME_SIZE)
           fullName == IF fullNameOf(data.personalDetails) # <<>>
                       THEN fullNameOf(data.personalDetails) ELSE YourName
           r == needSpace(y, lh)
           y1 == r.y + Times(lh, 60)
           pg == pages + P(r)
       IN  Emit("contacts", y1, pg,
                <<Op("needSpace", r.y), Op("lineAdvance", y1)>>,
                <<Draw("identity", 0, "name", 1, pg, r.y, fullName)>>)
    /\ UNCHANGED <<data, i, b, j, ret, buckets, saved, cursorVars, groupVars, linkVars, callVars, appVars>>

DrawContacts ==
    /\ pc = "contacts"
    /\ Len(contactsOf(data.personalDetails)) > 0
    /\ LET clh == lineHeightMM(META_SIZE)
           r == needSpace(y, clh)
           y1 == r.y + Times(clh, 90)
           pg == pages + P(r)
       IN  Emit("links", y1, pg,
                <<Op("needSpace", r.y), Op("lineAdvance", y1)>>,
                <<Draw("identity", 0, "contacts", 1, pg, r.y,
                       drawInlineCentered(contactsOf(data.personalDetails)))>>)
    /\ UNCHANGED <<data, i, b, j, ret, buckets, saved, cursorVars, groupVars, linkVars, callVars, appVars>>

SkipContacts ==
    /\ pc = "contacts"
    /\ Len(contactsOf(data.personalDetails)) = 0
    /\ SectionSkip("links")
    /\ UNCHANGED <<data, i, b, j, ret, buckets, saved, cursorVars, groupVars, linkVars, callVars, appVars>>

DrawLinks ==
    /\ pc = "links"
    /\ Len(linksOf(data.personalDetails)) > 0
    /\ LET llh == lineHeightMM(META_SIZE)
           r == needSpace(y, llh)
           y1 == r.y + Times(llh, 90)
           pg == pages + P(r)
       IN  Emit("photo", y1, pg,
                <<Op("needSpace", r.y), Op("lineAdvance", y1)>>,
                <<Draw("identity", 0, "links", 1, pg, r.y,
                       Labels(linksOf(data.personalDetails)))>>)
    /\ UNCHANGED <<data, i, b, j, ret, buckets, saved, cursorVars, groupVars, linkVars, callVars, appVars>>

SkipLinks ==
    /\ pc = "links"
    /\ Len(linksOf(data.personalDetails)) = 0
    /\ SectionSkip("photo")
    /\ UNCHANGED <<data, i, b, j, ret, buckets, saved, cursorVars, groupVars, linkVars, callVars, appVars>>

\* the exceptions a statement of generatePDF can raise
Errors == {"TypeError"}

\* if (personalDetails.photoUrl): the call suspends at the await
StartPhoto ==
    /\ pc = "photo"
    /\ data.personalDetails.photoUrl # ""
    /\ SectionSkip("photo_wait")
    /\ UNCHANGED <<data, i, b, j, ret, buckets, saved, cursorVars, groupVars, linkVars, callVars, appVars>>

SkipPhoto ==
    /\ pc = "photo"
    /\ data.personalDetails.photoUrl = ""
    /\ SectionSkip("summary")
    /\ UNCHANGED <<data, i, b, j, ret, buckets, saved, cursorVars, groupVars, linkVars, callVars, appVars>>

\* the data URL arrives and doc.addImage accepts it
PhotoLoaded ==
    /\ pc = "photo_wait"
    /\ LET y1 == Max(y, MARGIN + PHOTO_SIZE + 2 * SCALE)
       IN  Emit("summary", y1, pages, <<Op("photo", y1)>>,
                <<Draw("identity", 0, "photo", 1, pages, MARGIN, <<>>)>>)
    /\ UNCHANGED <<data, i, b, j, ret, buckets, saved, cursorVars, groupVars, linkVars, callVars, appVars>>

\* the photo is left out, its room is kept
PhotoFailed_KeepsPhotoRoom ==
    /\ pc = "photo_wait"
    /\ LET y1 == Max(y, MARGIN + PHOTO_SIZE + 2 * SCALE)
       IN  Emit("summary", y1, pages, <<Op("photo", y1)>>, <<>>)
    /\ UNCHANGED <<data, i, b, j, ret, buckets, saved, cursorVars, groupVars, linkVars, callVars, appVars>>

\* the failure of the photo ends the call
PhotoFailed_Unwinds ==
    /\ pc = "photo_wait"
    /\ pc' = "failed"
    /\ \E e \in Errors : err' = e
    /\ y' = 0 /\ pages' = 0 /\ i' = 0 /\ b' = 0 /\ j' = 0
    /\ ret' = "none" /\ buckets' = <<>> /\ trace' = <<>> /\ log' = <<>>
    /\ UNCHANGED <<data, saved, active, other, cursorVars, groupVars, linkVars, appVars>>

\* fetch, blob or addImage throws: catch { /* ignore */ }
PhotoFailed ==
    /\ pc = "photo_wait"
    /\ SectionSkip("summary")
    /\ UNCHANGED <<data, i, b, j, ret, buckets, saved, cursorVars, groupVars, linkVars, callVars, appVars>>

(***************************************************************************)
(* writeParagraph, one iteration of its loop per step                      *)
(***************************************************************************)
ParaSec ==
    CASE ret = "summary_end" -> "summary"
      [] ret = "edu_end" -> "education"
      [] OTHER -> "projects"

ParaCount ==
    CASE ret = "summary_end" -> data.personalDetails.summary
      [] ret = "edu_end" -> data.education[i].description
      [] OTHER -> data.projects[i].description

ParaItem ==
    CASE ret = "summary_end" -> 0
      [] ret = "edu_end" -> data.education[i].id
      [] OTHER -> data.projects[i].id

ParagraphLine ==
    /\ pc = "para"
    /\ LET lh == lineHeightMM(BODY_SIZE)
           r == needSpace(y, lh)
           y1 == r.y + lh
           pg == pages + P(r)
           last == j = ParaCount
       IN  /\ Emit(IF last THEN ret ELSE "para", y1, pg,
                   <<Op("needSpace", r.y), Op("lineAdvance", y1)>>,
                   <<Draw(ParaSec, ParaItem, "text", j, pg, r.y, <<>>)>>)
           /\ j' = IF last THEN 0 ELSE j + 1
           /\ ret' = IF last THEN "none" ELSE ret
    /\ UNCHANGED <<data, i, b, buckets, saved, cursorVars, groupVars, linkVars, callVars, appVars>>

(***************************************************************************)
(* Summary                                                                 *)
(***************************************************************************)
SkipSummary ==
    /\ pc = "summary"
    /\ data.personalDetails.summary = 0
    /\ SectionSkip("experience")
    /\ UNCHANGED <<data, i, b, j, ret, buckets, saved, cursorVars, groupVars, linkVars, callVars, appVars>>

SummaryHeader ==
    /\ pc = "summary"
    /\ data.personalDetails.summary > 0
    /\ SectionStart("summary", "para")
    /\ j' = 1
    /\ ret' = "summary_end"
    /\ UNCHANGED <<data, i, b, buckets, saved, cursorVars, groupVars, linkVars, callVars, appVars>>

SummaryEnd ==
    /\ pc = "summary_end"
    /\ AdvanceGap("experience", INTER_BLOCK_GAP)
    /\ UNCHANGED <<data, i, b, j, ret, buckets, saved, cursorVars, groupVars, linkVars, callVars, appVars>>

(***************************************************************************)
(* Experience                                                              *)
(***************************************************************************)
\* exp.description.split("\n").map((s) => s.trim()).filter(Boolean):
\* the non-blank lines, each with its place in the description
bulletsOf(description) ==
    LET idx == SelectSeq([k \in 1..Len(description) |-> k],
                         LAMBDA k : description[k] > 0)
    IN  [m \in 1..Len(idx) |-> [src |-> idx[m], n |-> description[idx[m]]]]

\* a supplied end date is shown although the position is current
expDates_PrefersEndDate(exp) ==
    <<formatDate(exp.startDate), " - ",
      IF exp.endDate # "" THEN formatDate(exp.endDate)
      ELSE IF exp.current THEN "Present" ELSE "">>

\* `${formatDate(exp.startDate)} - ${exp.current ? "Present" : formatDate(exp.endDate)}`
expDates(exp) ==
    <<formatDate(exp.startDate), " - ",
      IF exp.current THEN "Present" ELSE formatDate(exp.endDate)>>

SkipExperience ==
    /\ pc = "experience"
    /\ Len(data.experience) = 0
    /\ SectionSkip("education")
    /\ UNCHANGED <<data, i, b, j, ret, buckets, saved, cursorVars, groupVars, linkVars, callVars, appVars>>

ExperienceHeader ==
    /\ pc = "experience"
    /\ Len(data.experience) > 0
    /\ SectionStart("experience", "exp_title")
    /\ i' = 1
    /\ UNCHANGED <<data, b, j, ret, buckets, saved, cursorVars, groupVars, linkVars, callVars, appVars>>

ExpTitle ==
    /\ pc = "exp_title"
    /\ LET exp == data.experience[i]
           titleLH == lineHeightMM(SUBHEADING_SIZE)
           r == needSpace(y, titleLH + 1 * SCALE)
           y1 == r.y + Times(titleLH, 95)
           pg == pages + P(r)
       IN  Emit("exp_company", y1, pg,
                <<Op("needSpace", r.y), Op("lineAdvance", y1)>>,
                <<Draw("experience", exp.id, "title", 1, pg, r.y, <<>>),
                  Draw("experience", exp.id, "dates", 1, pg, r.y, expDates(exp))>>)
    /\ UNCHANGED <<data, i, b, j, ret, buckets, saved, cursorVars, groupVars, linkVars, callVars, appVars>>

\* the company is drawn on the line of the title
ExpCompany_OnTitleLine ==
    /\ pc = "exp_company"
    /\ LET exp == data.experience[i]
           metaLH == lineHeightMM(META_SIZE)
           s1 == addTopSpacing(y, COMPANY_GAP_BEFORE)
           r == needSpace(s1.y, metaLH)
           y1 == r.y + Times(metaLH, 90)
           s2 == addTopSpacing(y1, COMPANY_GAP_AFTER)
           pgDraw == pages + P(s1) + P(r)
           hasBullets == exp.description # <<>> /\ Len(bulletsOf(exp.description)) > 0
       IN  /\ Emit(IF hasBullets THEN "bullet" ELSE "exp_end", s2.y, pgDraw + P(s2),
                   <<Op("addTopSpacing", s1.y), Op("needSpace", r.y),
                     Op("lineAdvance", y1), Op("addTopSpacing", s2.y)>>,
                   <<Draw("experience", exp.id, "company", 1, pages,
                          y - Times(lineHeightMM(SUBHEADING_SIZE), 95), <<>>)>>
                   \o (IF exp.location # ""
                       THEN <<Draw("experience", exp.id, "location", 1, pgDraw, r.y, <<>>)>>
                       ELSE <<>>))
           /\ b' = IF hasBullets THEN 1 ELSE 0
           /\ j' = IF hasBullets THEN 1 ELSE 0
    /\ UNCHANGED <<data, i, ret, buckets, saved, cursorVars, groupVars, linkVars, callVars, appVars>>

ExpCompany ==
    /\ pc = "exp_company"
    /\ LET exp == data.experience[i]
           metaLH == lineHeightMM(META_SIZE)
           s1 == addTopSpacing(y, COMPANY_GAP_BEFORE)
           r == needSpace(s1.y, metaLH)
           y1 == r.y + Times(metaLH, 90)
           s2 == addTopSpacing(y1, COMPANY_GAP_AFTER)
           pgDraw == pages + P(s1) + P(r)
           hasBullets == exp.description # <<>> /\ Len(bulletsOf(exp.description)) > 0
       IN  /\ Emit(IF hasBullets THEN "bullet" ELSE "exp_end", s2.y, pgDraw + P(s2),
                   <<Op("addTopSpacing", s1.y), Op("needSpace", r.y),
                     Op("lineAdvance", y1), Op("addTopSpacing", s2.y)>>,
                   <<Draw("experience", exp.id, "company", 1, pgDraw, r.y, <<>>)>>
                   \o (IF exp.location # ""
                       THEN <<Draw("experience", exp.id, "location", 1, pgDraw, r.y, <<>>)>>
                       ELSE <<>>))
           /\ b' = IF hasBullets THEN 1 ELSE 0
           /\ j' = IF hasBullets THEN 1 ELSE 0
    /\ UNCHANGED <<data, i, ret, buckets, saved, cursorVars, groupVars, linkVars, callVars, appVars>>

\* the line that meets a page break is not drawn on the new page
BulletLine_LosesLineAtPageBreak ==
    /\ pc = "bullet"
    /\ LET exp == data.experience[i]
           bullets == bulletsOf(exp.description)
           lh == lineHeightMM(BODY_SIZE)
           r == needSpace(y, lh)
           y1 == r.y + lh
           pg == pages + P(r)
           lastLine == j = bullets[b].n
           lastBullet == b = Len(bullets)
           y2 == IF lastLine THEN y1 + BULLET_GAP ELSE y1
       IN  /\ Emit(IF lastLine /\ lastBullet THEN "exp_end" ELSE "bullet", y2, pg,
                   <<Op("needSpace", r.y), Op("lineAdvance", y1)>>
                   \o (IF lastLine THEN <<Op("gap", y2)>> ELSE <<>>),
                   (IF j = 1
                    THEN <<Draw("experience", exp.id, "glyph", 1, pg, r.y,
                                <<bullets[b].src>>)>>
                    ELSE <<>>)
                   \o (IF r.addPage THEN <<>>
                       ELSE <<Draw("experience", exp.id, "bullet", j, pg, r.y,
                                   <<bullets[b].src>>)>>))
           /\ b' = IF lastLine THEN (IF lastBullet THEN 0 ELSE b + 1) ELSE b
           /\ j' = IF lastLine THEN (IF lastBullet THEN 0 ELSE 1) ELSE j + 1
    /\ UNCHANGED <<data, i, ret, buckets, saved, cursorVars, groupVars, linkVars, callVars, appVars>>

\* writeBullets, one physical line per step: the glyph goes with the first
\* line of a bullet, the 1.5 gap with its last line
BulletLine ==
    /\ pc = "bullet"
    /\ LET exp == data.experience[i]
           bullets == bulletsOf(exp.description)
           lh == lineHeightMM(BODY_SIZE)
           r == needSpace(y, lh)
           y1 == r.y + lh
           pg == pages + P(r)
           lastLine == j = bullets[b].n
           lastBullet == b = Len(bullets)
           y2 == IF lastLine THEN y1 + BULLET_GAP ELSE y1
       IN  /\ Emit(IF lastLine /\ lastBullet THEN "exp_end" ELSE "bullet", y2, pg,
                   <<Op("needSpace", r.y), Op("lineAdvance", y1)>>
                   \o (IF lastLine THEN <<Op("gap", y2)>> ELSE <<>>),
                   (IF j = 1
                    THEN <<Draw("experience", exp.id, "glyph", 1, pg, r.y,
                                <<bullets[b].src>>)>>
                    ELSE <<>>)
                   \o <<Draw("experience", exp.id, "bullet", j, pg, r.y,
                             <<bullets[b].src>>)>>)
           /\ b' = IF lastLine THEN (IF lastBullet THEN 0 ELSE b + 1) ELSE b
           /\ j' = IF lastLine THEN (IF lastBullet THEN 0 ELSE 1) ELSE j + 1
    /\ UNCHANGED <<data, i, ret, buckets, saved, cursorVars, groupVars, linkVars, callVars, appVars>>

ExpEnd ==
    /\ pc = "exp_end"
    /\ LET more == i < Len(data.experience)
       IN  /\ AdvanceGap(IF more THEN "exp_title" ELSE "education", INTER_BLOCK_GAP)
           /\ i' = IF more THEN i + 1 ELSE 0
    /\ UNCHANGED <<data, b, j, ret, buckets, saved, cursorVars, groupVars, linkVars, callVars, appVars>>

(***************************************************************************)
(* Education                                                               *)
(***************************************************************************)
eduDates(edu) == <<formatDate(edu.startDate), " - ", formatDate(edu.endDate)>>

SkipEducation ==
    /\ pc = "education"
    /\ Len(data.education) = 0
    /\ SectionSkip("skills")
    /\ UNCHANGED <<data, i, b, j, ret, buckets, saved, cursorVars, groupVars, linkVars, callVars, appVars>>

EducationHeader ==
    /\ pc = "education"
    /\ Len(data.education) > 0
    /\ SectionStart("education", "edu_degree")
    /\ i' = 1
    /\ UNCHANGED <<data, b, j, ret, buckets, saved, cursorVars, groupVars, linkVars, callVars, appVars>>

EduDegree ==
    /\ pc = "edu_degree"
    /\ LET edu == data.education[i]
           degLH == lineHeightMM(SUBHEADING_SIZE)
           r == needSpace(y, degLH)
           y1 == r.y + Times(degLH, 95)
           pg == pages + P(r)
       IN  Emit("edu_inst", y1, pg,
                <<Op("needSpace", r.y), Op("lineAdvance", y1)>>,
                <<Draw("education", edu.id, "title", 1, pg, r.y, <<>>),
                  Draw("education", edu.id, "dates", 1, pg, r.y, eduDates(edu))>>)
    /\ UNCHANGED <<data, i, b, j, ret, buckets, saved, cursorVars, groupVars, linkVars, callVars, appVars>>

EduInstitution ==
    /\ pc = "edu_inst"
    /\ LET edu == data.education[i]
           instLH == lineHeightMM(META_SIZE)
           s1 == addTopSpacing(y, INSTITUTION_GAP_BEFORE)
           r == needSpace(s1.y, instLH)
           y1 == r.y + Times(instLH, 90)
           s2 == addTopSpacing(y1, INSTITUTION_GAP_AFTER)
           pgDraw == pages + P(s1) + P(r)
           toPara == edu.gpa = "" /\ edu.description > 0
       IN  /\ Emit(IF edu.gpa # "" THEN "edu_gpa"
                   ELSE IF edu.description > 0 THEN "para" ELSE "edu_end",
                   s2.y, pgDraw + P(s2),
                   <<Op("addTopSpacing", s1.y), Op("needSpace", r.y),
                     Op("lineAdvance", y1), Op("addTopSpacing", s2.y)>>,
                   <<Draw("education", edu.id, "company", 1, pgDraw, r.y, <<>>)>>
                   \o (IF edu.location # ""
                       THEN <<Draw("education", edu.id, "location", 1, pgDraw, r.y, <<>>)>>
                       ELSE <<>>))
           /\ j' = IF toPara THEN 1 ELSE j
           /\ ret' = IF toPara THEN "edu_end" ELSE ret
    /\ UNCHANGED <<data, i, b, buckets, saved, cursorVars, groupVars, linkVars, callVars, appVars>>

EduGpa ==
    /\ pc = "edu_gpa"
    /\ LET edu == data.education[i]
           gpaLH == lineHeightMM(BODY_SIZE)
           r == needSpace(y, gpaLH)
           y1 == r.y + Times(gpaLH, 90)
           pg == pages + P(r)
           toPara == edu.description > 0
       IN  /\ Emit(IF toPara THEN "para" ELSE "edu_end", y1, pg,
                   <<Op("needSpace", r.y), Op("lineAdvance", y1)>>,
                   <<Draw("education", edu.id, "gpa", 1, pg, r.y, <<>>)>>)
           /\ j' = IF toPara THEN 1 ELSE j
           /\ ret' = IF toPara THEN "edu_end" ELSE ret
    /\ UNCHANGED <<data, i, b, buckets, saved, cursorVars, groupVars, linkVars, callVars, appVars>>

EduEnd ==
    /\ pc = "edu_end"
    /\ LET more == i < Len(data.education)
       IN  /\ AdvanceGap(IF more THEN "edu_degree" ELSE "skills", INTER_BLOCK_GAP)
           /\ i' = IF more THEN i + 1 ELSE 0
    /\ UNCHANGED <<data, b, j, ret, buckets, saved, cursorVars, groupVars, linkVars, callVars, appVars>>

(***************************************************************************)
(* Technical skills                                                        *)
(***************************************************************************)
SkipSkills ==
    /\ pc = "skills"
    /\ Len(data.skills) = 0
    /\ SectionSkip("projects")
    /\ UNCHANGED <<data, i, b, j, ret, buckets, saved, cursorVars, groupVars, linkVars, callVars, appVars>>

SkillsHeader ==
    /\ pc = "skills"
    /\ Len(data.skills) > 0
    /\ SectionStart("skills", "bucket")
    /\ buckets' = groupSkillsCaseInsensitive(data.skills)
    /\ b' = 1
    /\ UNCHANGED <<data, i, j, ret, saved, cursorVars, groupVars, linkVars, callVars, appVars>>

\* bucket.items.map((s) => s.name).join(", ")
skillNames(bucket) == [k \in 1..Len(bucket.items) |-> bucket.items[k].name]

\* the row of one bucket up to its first line; firstCategory is b = 1
BucketRow ==
    /\ pc = "bucket"
    /\ LET bucket == buckets[b]
           displayCat == IF bucket.label # <<>> THEN bucket.label ELSE CategoryLabel
           lineLH == lineHeightMM(BODY_SIZE)
           lines == data.skillWrap[b]
           g == IF b > 1 THEN addTopSpacing(y, NEW_CATEGORY_GAP_BEFORE)
                ELSE [y |-> y, addPage |-> FALSE]
           blockH == Max(lineLH, lines * lineLH) + CATEGORY_GAP_AFTER
           brk == g.y + blockH > PAGE_H - MARGIN
           y1 == IF brk THEN MARGIN ELSE g.y
           r == needSpace(y1, lineLH)
           pg == pages + P(g) + (IF brk THEN 1 ELSE 0) + P(r)
       IN  /\ Emit(IF lines > 1 THEN "bucket_line" ELSE "bucket_end", r.y, pg,
                   (IF b > 1 THEN <<Op("addTopSpacing", g.y)>> ELSE <<>>)
                   \o (IF brk THEN <<Op("blockBreak", y1)>> ELSE <<>>)
                   \o <<Op("needSpace", r.y)>>,
                   <<Draw("skills", b, "label", 1, pg, r.y, displayCat)>>
                   \o (IF lines > 0
                       THEN <<Draw("skills", b, "names", 1, pg, r.y, skillNames(bucket))>>
                       ELSE <<>>))
           /\ j' = IF lines > 1 THEN 2 ELSE 0
    /\ UNCHANGED <<data, i, b, ret, buckets, saved, cursorVars, groupVars, linkVars, callVars, appVars>>

\* a further wrapped line of the bucket: the cursor advances, then the line
\* is drawn
BucketLine ==
    /\ pc = "bucket_line"
    /\ LET lineLH == lineHeightMM(BODY_SIZE)
           lines == data.skillWrap[b]
           r == needSpace(y, lineLH)
           y1 == r.y + lineLH
           pg == pages + P(r)
           last == j = lines
       IN  /\ Emit(IF last THEN "bucket_end" ELSE "bucket_line", y1, pg,
                   <<Op("needSpace", r.y), Op("lineAdvance", y1)>>,
                   <<Draw("skills", b, "names", j, pg, y1, skillNames(buckets[b]))>>)
           /\ j' = IF last THEN 0 ELSE j + 1
    /\ UNCHANGED <<data, i, b, ret, buckets, saved, cursorVars, groupVars, linkVars, callVars, appVars>>

BucketEnd ==
    /\ pc = "bucket_end"
    /\ LET more == b < Len(buckets)
       IN  /\ AdvanceGap(IF more THEN "bucket" ELSE "skills_tail", CATEGORY_GAP_AFTER)
           /\ b' = IF more THEN b + 1 ELSE 0
    /\ UNCHANGED <<data, i, j, ret, buckets, saved, cursorVars, groupVars, linkVars, callVars, appVars>>

SkillsTail ==
    /\ pc = "skills_tail"
    /\ LET s1 == addTopSpacing(y, SKILLS_TAIL_PAD)
       IN  Emit("projects", s1.y, pages + P(s1), <<Op("addTopSpacing", s1.y)>>, <<>>)
    /\ UNCHANGED <<data, i, b, j, ret, buckets, saved, cursorVars, groupVars, linkVars, callVars, appVars>>

(***************************************************************************)
(* Projects                                                                *)
(***************************************************************************)
MAX_PROJECTS == 4

MAX_CERTIFICATES == 10

Min(m, n) == IF m <= n THEN m ELSE n

\* the first n entries, last one first
slice_Reversed(list, n) ==
    LET len == IF n <= Len(list) THEN n ELSE Len(list)
    IN  [k \in 1..len |-> list[len + 1 - k]]

\* the whole list, whatever n
slice_WholeList(list, n) == list

\* list.slice(0, n)
slice(list, n) == SubSeq(list, 1, Min(n, Len(list)))

projDates(p) == <<formatDate(p.startDate), " - ", formatDate(p.endDate)>>

\* where a project continues after its title, its URL and its description
AfterProjDesc(p) == IF p.technologies > 0 THEN "proj_tech" ELSE "proj_end"
AfterProjUrl(p) == IF p.description > 0 THEN "para" ELSE AfterProjDesc(p)
AfterProjTitle(p) == IF p.url # "" THEN "proj_url" ELSE AfterProjUrl(p)

SkipProjects ==
    /\ pc = "projects"
    /\ Len(data.projects) = 0
    /\ SectionSkip("additional")
    /\ UNCHANGED <<data, i, b, j, ret, buckets, saved, cursorVars, groupVars, linkVars, callVars, appVars>>

ProjectsHeader ==
    /\ pc = "projects"
    /\ Len(data.projects) > 0
    /\ SectionStart("projects", "proj_title")
    /\ i' = 1
    /\ UNCHANGED <<data, b, j, ret, buckets, saved, cursorVars, groupVars, linkVars, callVars, appVars>>

ProjTitle ==
    /\ pc = "proj_title"
    /\ LET p == slice(data.projects, MAX_PROJECTS)[i]
           titleLH == lineHeightMM(SUBHEADING_SIZE)
           r == needSpace(y, titleLH)
           y1 == r.y + Times(titleLH, 95)
           s1 == addTopSpacing(y1, PROJECT_AFTER_TITLE_GAP)
           pgDraw == pages + P(r)
           toPara == AfterProjTitle(p) = "para"
       IN  /\ Emit(AfterProjTitle(p), s1.y, pgDraw + P(s1),
                   <<Op("needSpace", r.y), Op("lineAdvance", y1),
                     Op("addTopSpacing", s1.y)>>,
                   <<Draw("projects", p.id, "title", 1, pgDraw, r.y, <<>>)>>
                   \o (IF p.startDate # "" \/ p.endDate # ""
                       THEN <<Draw("projects", p.id, "dates", 1, pgDraw, r.y, projDates(p))>>
                       ELSE <<>>))
           /\ j' = IF toPara THEN 1 ELSE j
           /\ ret' = IF toPara THEN AfterProjDesc(p) ELSE ret
    /\ UNCHANGED <<data, i, b, buckets, saved, cursorVars, groupVars, linkVars, callVars, appVars>>

ProjUrl ==
    /\ pc = "proj_url"
    /\ LET p == slice(data.projects, MAX_PROJECTS)[i]
           ulh == lineHeightMM(META_SIZE)
           r == needSpace(y, ulh)
           y1 == r.y + Times(ulh, 90)
           pg == pages + P(r)
           toPara == AfterProjUrl(p) = "para"
       IN  /\ Emit(AfterProjUrl(p), y1, pg,
                   <<Op("needSpace", r.y), Op("lineAdvance", y1)>>,
                   <<Draw("projects", p.id, "url", 1, pg, r.y, <<p.url>>)>>)
           /\ j' = IF toPara THEN 1 ELSE j
           /\ ret' = IF toPara THEN AfterProjDesc(p) ELSE ret
    /\ UNCHANGED <<data, i, b, buckets, saved, cursorVars, groupVars, linkVars, callVars, appVars>>

ProjTechLabel ==
    /\ pc = "proj_tech"
    /\ LET p == slice(data.projects, MAX_PROJECTS)[i]
           labLH == lineHeightMM(BODY_SIZE)
           r == needSpace(y, labLH)
           pg == pages + P(r)
       IN  /\ Emit("proj_tech_line", r.y, pg, <<Op("needSpace", r.y)>>,
                   <<Draw("projects", p.id, "tech_label", 1, pg, r.y, <<>>)>>)
           /\ j' = 1
    /\ UNCHANGED <<data, i, b, ret, buckets, saved, cursorVars, groupVars, linkVars, callVars, appVars>>

ProjTechLine ==
    /\ pc = "proj_tech_line"
    /\ LET p == slice(data.projects, MAX_PROJECTS)[i]
           lh == lineHeightMM(BODY_SIZE)
           r == needSpace(y, lh)
           y1 == r.y + lh
           pg == pages + P(r)
           last == j = p.technologies
       IN  /\ Emit(IF last THEN "proj_end" ELSE "proj_tech_line", y1, pg,
                   <<Op("needSpace", r.y), Op("lineAdvance", y1)>>,
                   <<Draw("projects", p.id, "tech", j, pg, r.y, <<>>)>>)
           /\ j' = IF last THEN 0 ELSE j + 1
    /\ UNCHANGED <<data, i, b, ret, buckets, saved, cursorVars, groupVars, linkVars, callVars, appVars>>

ProjEnd ==
    /\ pc = "proj_end"
    /\ LET more == i < Len(slice(data.projects, MAX_PROJECTS))
       IN  /\ AdvanceGap(IF more THEN "proj_title" ELSE "additional", INTER_BLOCK_GAP)
           /\ i' = IF more THEN i + 1 ELSE 0
    /\ UNCHANGED <<data, b, j, ret, buckets, saved, cursorVars, groupVars, linkVars, callVars, appVars>>

(***************************************************************************)
(* Additional: languages and certificates                                  *)
(***************************************************************************)
SkipAdditional ==
    /\ pc = "additional"
    /\ ~(Len(data.languages) > 0 \/ Len(data.certificates) > 0)
    /\ SectionSkip("save")
    /\ UNCHANGED <<data, i, b, j, ret, buckets, saved, cursorVars, groupVars, linkVars, callVars, appVars>>

AdditionalHeader ==
    /\ pc = "additional"
    /\ Len(data.languages) > 0 \/ Len(data.certificates) > 0
    /\ SectionStart("additional",
                    IF Len(data.languages) > 0 THEN "lang_head" ELSE "cert_head")
    /\ UNCHANGED <<data, i, b, j, ret, buckets, saved, cursorVars, groupVars, linkVars, callVars, appVars>>

SubHeading(part, newPc) ==
    LET subLH == lineHeightMM(SUBHEADING_SIZE)
        r == needSpace(y, subLH)
        y1 == r.y + Times(subLH, 80)
        pg == pages + P(r)
    IN  Emit(newPc, y1, pg,
             <<Op("needSpace", r.y), Op("lineAdvance", y1)>>,
             <<Draw("additional", 0, part, 1, pg, r.y, <<>>)>>)

LangHeading ==
    /\ pc = "lang_head"
    /\ SubHeading("languages", "lang_line")
    /\ i' = 1
    /\ UNCHANGED <<data, b, j, ret, buckets, saved, cursorVars, groupVars, linkVars, callVars, appVars>>

LangLine ==
    /\ pc = "lang_line"
    /\ LET lang == data.languages[i]
           lh == lineHeightMM(BODY_SIZE)
           r == needSpace(y, lh)
           y1 == r.y + lh
           pg == pages + P(r)
           last == i = Len(data.languages)
       IN  /\ Emit(IF last THEN "lang_end" ELSE "lang_line", y1, pg,
                   <<Op("needSpace", r.y), Op("lineAdvance", y1)>>,
                   <<Draw("additional", lang.id, "language", 1, pg, r.y, <<>>)>>)
           /\ i' = IF last THEN 0 ELSE i + 1
    /\ UNCHANGED <<data, b, j, ret, buckets, saved, cursorVars, groupVars, linkVars, callVars, appVars>>

LangEnd ==
    /\ pc = "lang_end"
    /\ AdvanceGap(IF Len(data.certificates) > 0 THEN "cert_head" ELSE "save",
                  INTER_BLOCK_GAP)
    /\ UNCHANGED <<data, i, b, j, ret, buckets, saved, cursorVars, groupVars, linkVars, callVars, appVars>>

CertHeading ==
    /\ pc = "cert_head"
    /\ SubHeading("certifications", "cert")
    /\ i' = 1
    /\ UNCHANGED <<data, b, j, ret, buckets, saved, cursorVars, groupVars, linkVars, callVars, appVars>>

\* the meta line of a certificate is left out
CertEntry_WithoutMetaLine ==
    /\ pc = "cert"
    /\ LET certs == slice(data.certificates, MAX_CERTIFICATES)
           cert == certs[i]
           nameLH == lineHeightMM(BODY_SIZE)
           metaLH == lineHeightMM(BODY_SIZE)
           r1 == needSpace(y, nameLH)
           y1 == r1.y + Times(nameLH, 80)
           r2 == needSpace(y1, metaLH)
           y2 == r2.y + metaLH
           y3 == y2 + CERT_GAP
           pg1 == pages + P(r1)
           pg2 == pg1 + P(r2)
           last == i = Len(certs)
       IN  /\ Emit(IF last THEN "save" ELSE "cert", y3, pg2,
                   <<Op("needSpace", r1.y), Op("lineAdvance", y1),
                     Op("needSpace", r2.y), Op("lineAdvance", y2), Op("gap", y3)>>,
                   <<Draw("additional", cert.id, "cert_name", 1, pg1, r1.y, <<>>)>>)
           /\ i' = IF last THEN 0 ELSE i + 1
    /\ UNCHANGED <<data, b, j, ret, buckets, saved, cursorVars, groupVars, linkVars, callVars, appVars>>

\* one certificate: the bold name line, the meta line, the 1.2 gap
CertEntry ==
    /\ pc = "cert"
    /\ LET certs == slice(data.certificates, MAX_CERTIFICATES)
           cert == certs[i]
           nameLH == lineHeightMM(BODY_SIZE)
           metaLH == lineHeightMM(BODY_SIZE)
           r1 == needSpace(y, nameLH)
           y1 == r1.y + Times(nameLH, 80)
           r2 == needSpace(y1, metaLH)
           y2 == r2.y + metaLH
           y3 == y2 + CERT_GAP
           pg1 == pages + P(r1)
           pg2 == pg1 + P(r2)
           last == i = Len(certs)
       IN  /\ Emit(IF last THEN "save" ELSE "cert", y3, pg2,
                   <<Op("needSpace", r1.y), Op("lineAdvance", y1),
                     Op("needSpace", r2.y), Op("lineAdvance", y2), Op("gap", y3)>>,
                   <<Draw("additional", cert.id, "cert_name", 1, pg1, r1.y, <<>>),
                     Draw("additional", cert.id, "cert_meta", 1, pg2, r2.y,
                          <<formatDate(cert.dateIssued)>>)>>)
           /\ i' = IF last THEN 0 ELSE i + 1
    /\ UNCHANGED <<data, b, j, ret, buckets, saved, cursorVars, groupVars, linkVars, callVars, appVars>>

(***************************************************************************)
(* doc.save(fileName)                                                      *)
(***************************************************************************)
\* every whitespace character becomes an underscore of its own
underscored_PerCharacter(s) == [k \in 1..Len(s) |-> IF IsSpace(s[k]) THEN "_" ELSE s[k]]

\* fullName.replace(/\s+/g, "_"): every maximal run of whitespace becomes
\* one underscore
underscored(s) ==
    LET c == collapseWhitespace(s)
    IN  [k \in 1..Len(c) |-> IF c[k] = " " THEN "_" ELSE c[k]]

\* "Your_Name"
Your_Name == <<"Y", "o", "u", "r", "_", "N", "a", "m", "e">>

\* const fileName = filename || `${fullName.replace(/\s+/g, "_")}_Resume.pdf`
fileNameOf(d) ==
    LET fullName == IF fullNameOf(d.personalDetails) # <<>>
                    THEN fullNameOf(d.personalDetails) ELSE Your_Name
    IN  IF d.filename # "" THEN <<d.filename>>
        ELSE underscored(fullName) \o <<"_Resume.pdf">>

\* the document as it is when doc.save writes it out
Artifact == [by |-> active, name |-> fileNameOf(data), pages |-> pages, content |-> log]

\* the step at pc only tests the condition of an if, and finds it false
OnlyTests ==
    \/ pc = "contacts" /\ Len(contactsOf(data.personalDetails)) = 0
    \/ pc = "links" /\ Len(linksOf(data.personalDetails)) = 0
    \/ pc = "photo" /\ data.personalDetails.photoUrl = ""
    \/ pc = "summary" /\ data.personalDetails.summary = 0
    \/ pc = "experience" /\ Len(data.experience) = 0
    \/ pc = "education" /\ Len(data.education) = 0
    \/ pc = "skills" /\ Len(data.skills) = 0
    \/ pc = "projects" /\ Len(data.projects) = 0
    \/ pc = "additional" /\ Len(data.languages) = 0 /\ Len(data.certificates) = 0

\* the document is also written out when the call ends with the exception
Throw_SavesPartialDocument ==
    /\ pc \notin {"photo_wait", "save", "done", "failed"}
    /\ ~OnlyTests
    /\ \E e \in {"TypeError"} : err' = e
    /\ pc' = "failed"
    /\ saved' = Append(saved, Artifact)
    /\ y' = 0 /\ pages' = 0 /\ i' = 0 /\ b' = 0 /\ j' = 0
    /\ ret' = "none" /\ buckets' = <<>> /\ trace' = <<>> /\ log' = <<>>
    /\ UNCHANGED <<data, active, other, cursorVars, groupVars, linkVars, appVars>>

\* a statement that draws, outside the try of the photo block, throws:
\* generatePDF has no catch for it, the call ends with that exception and its
\* locals are gone
Throw ==
    /\ pc \notin {"photo_wait", "save", "done", "failed"}
    /\ ~OnlyTests
    /\ \E e \in Errors : err' = e
    /\ pc' = "failed"
    /\ y' = 0 /\ pages' = 0 /\ i' = 0 /\ b' = 0 /\ j' = 0
    /\ ret' = "none" /\ buckets' = <<>> /\ trace' = <<>> /\ log' = <<>>
    /\ UNCHANGED <<data, saved, active, other, cursorVars, groupVars, linkVars, appVars>>

Save ==
    /\ pc = "save"
    /\ saved' = Append(saved, Artifact)
    /\ pc' = "done"
    /\ trace' = <<>>
    /\ UNCHANGED <<data, y, pages, i, b, j, ret, buckets, log, cursorVars, groupVars, linkVars, callVars, appVars>>

(***************************************************************************)
(* Inputs of generatePDF                                                   *)
(***************************************************************************)
MaxSummaryLines == 66   \* most wrapped lines of the summary
MaxExp == 2             \* most experience entries in the experience inputs
MaxDescLines == 3       \* most newline-separated lines of a description
MaxWrap == 2            \* most physical lines one bullet wraps to

AdaEmail == <<"a", "d", "a", "@", "x">>

PD(summary, email, links, photoUrl) ==
    [firstName |-> <<"A", "d", "a">>,
     lastName |-> <<"L", "o", "v", "e", "l", "a", "c", "e">>,
     email |-> email, phone |-> <<>>, location |-> <<>>,
     summary |-> summary,
     linkedIn |-> links, github |-> "", portfolio |-> "",
     photoUrl |-> photoUrl]

Doc(pd, experience, education, skills, projects, languages, certificates) ==
    [personalDetails |-> pd,
     experience |-> experience,
     education |-> education,
     skills |-> skills,
     skillWrap |-> [k \in 1..Len(skills) |-> IF k = 1 THEN 2 ELSE 1],
     projects |-> projects,
     languages |-> languages,
     certificates |-> certificates,
     filename |-> ""]

ExpItem(k, current, endDate, description) ==
    [id |-> k, startDate |-> "2019-11", endDate |-> endDate, current |-> current,
     location |-> IF current THEN "" ELSE "London", description |-> description]

EduItem(k, gpa, description) ==
    [id |-> k, startDate |-> "2019-11", endDate |-> "2021-03",
     location |-> "", gpa |-> gpa, description |-> description]

ProjItem(k, url, description, technologies) ==
    [id |-> k, startDate |-> IF url = "" THEN "" ELSE "2021-03", endDate |-> "",
     url |-> url, description |-> description, technologies |-> technologies]

Item(k) == [id |-> k, dateIssued |-> "2021-03"]

RichExperience ==
    <<ExpItem(1, TRUE, "2021-03", <<2, 0, 1>>), ExpItem(2, FALSE, "2021-03", <<1>>)>>
RichEducation == <<EduItem(1, "3.9", 2), EduItem(2, "", 0)>>
RichSkills ==
    <<[name |-> 1, category |-> <<"A">>], [name |-> 2, category |-> <<"e_acute">>],
      [name |-> 3, category |-> <<" ", "a">>]>>
RichProjects == <<ProjItem(1, "example.com", 2, 2), ProjItem(2, "", 0, 0)>>
RichLanguages == <<Item(1), Item(2)>>
RichCertificates == <<Item(1), Item(2)>>

\* a long summary in front of a document with every section: the page
\* boundary falls in every section in turn
PagingInputs ==
    {Doc(PD(n, email, links, photoUrl), RichExperience, RichEducation, RichSkills,
         RichProjects, RichLanguages, RichCertificates) :
        n \in 0..MaxSummaryLines, email \in {<<>>, AdaEmail},
        links \in {"", "linkedin.com/in/ada"}, photoUrl \in {"", "photo.jpg"}}

\* every section present or empty, independently
SectionInputs ==
    {Doc(PD(n, AdaEmail, "", ""), experience, education, skills, projects,
         languages, certificates) :
        n \in {0, 2},
        experience \in {<<>>, RichExperience},
        education \in {<<>>, RichEducation},
        skills \in {<<>>, RichSkills},
        projects \in {<<>>, RichProjects},
        languages \in {<<>>, RichLanguages},
        certificates \in {<<>>, RichCertificates}}

EmptyDoc(photoUrl) == Doc(PD(0, <<>>, "", photoUrl), <<>>, <<>>, <<>>, <<>>, <<>>, <<>>)

MaxNameLen == 2         \* longest first name and last name of the name inputs

NameChars == {"a", " ", "wide_sp"}

\* every first and last name, with and without a file name of the caller
NameInputs ==
    {[EmptyDoc("") EXCEPT !.personalDetails.firstName = first,
                          !.personalDetails.lastName = last,
                          !.filename = filename] :
        first \in StringsUpTo(NameChars, MaxNameLen),
        last \in StringsUpTo(NameChars, MaxNameLen),
        filename \in {"", "cv.pdf"}}

MaxPhoneLen == 3        \* longest phone number of the contact inputs

PhoneChars == {"1", " ", "wide_sp"}

\* every combination of e-mail, phone and location, the phone with whitespace
\* in every place
ContactInputs ==
    {[EmptyDoc("") EXCEPT !.personalDetails.email = email,
                          !.personalDetails.phone = phone,
                          !.personalDetails.location = location] :
        email \in {<<>>, AdaEmail},
        phone \in StringsUpTo(PhoneChars, MaxPhoneLen),
        location \in {<<>>, <<"L", "o", "n", "d", "o", "n">>}}

MaxProjects == 5        \* most projects of the list inputs
MaxCerts == 11          \* most certificates of the list inputs

\* projects and certificates up to and past their caps, on one page and
\* across a page break
ListInputs ==
    {Doc(PD(n, <<>>, "", ""), <<>>, <<>>, <<>>,
         [k \in 1..np |-> ProjItem(k, "", 0, 0)], <<>>, [k \in 1..nc |-> Item(k)]) :
        n \in {0, MaxSummaryLines - 6}, np \in 0..MaxProjects, nc \in 0..MaxCerts}

DescChoices == UNION {[1..m -> 0..MaxWrap] : m \in 0..MaxDescLines}

ExpKinds(k) ==
    {ExpItem(k, current, endDate, description) :
        current \in BOOLEAN, endDate \in {"", "2021-03"},
        description \in {<<>>, <<0>>, <<1>>, <<2, 0, 1>>}}

ExpLists ==
    UNION {{f \in [1..m -> UNION {ExpKinds(k) : k \in 1..m}] :
                \A k \in 1..m : f[k].id = k} : m \in 0..MaxExp}

\* experience lists alone, and one entry with every description
ExperienceInputs ==
    {Doc(PD(0, <<>>, "", ""), experience, <<>>, <<>>, <<>>, <<>>, <<>>) :
        experience \in ExpLists}
    \cup {Doc(PD(n, <<>>, "", ""), <<ExpItem(1, FALSE, "", description)>>,
              <<>>, <<>>, <<>>, <<>>, <<>>) :
            n \in {0, MaxSummaryLines - 8}, description \in DescChoices}

(***************************************************************************)
(* Specification of generatePDF                                            *)
(***************************************************************************)
Init ==
    /\ \/ data \in PagingInputs
       \/ data \in SectionInputs
       \/ data \in ExperienceInputs
       \/ data \in NameInputs
       \/ data \in ListInputs
       \/ data \in ContactInputs
    /\ pc = "name"
    /\ y = MARGIN
    /\ pages = 1
    /\ i = 0 /\ b = 0 /\ j = 0
    /\ ret = "none"
    /\ buckets = <<>>
    /\ trace = <<>>
    /\ log = <<>>
    /\ saved = <<>>
    /\ err = "none"
    /\ active = 1
    /\ other = NoCall
    /\ CursorIdle
    /\ GroupIdle
    /\ LinkIdle
    /\ AppIdle

Next ==
    \/ DrawName \/ DrawContacts \/ SkipContacts \/ DrawLinks \/ SkipLinks
    \/ StartPhoto \/ SkipPhoto \/ PhotoLoaded \/ PhotoFailed
    \/ ParagraphLine
    \/ SkipSummary \/ SummaryHeader \/ SummaryEnd
    \/ SkipExperience \/ ExperienceHeader \/ ExpTitle \/ ExpCompany
    \/ BulletLine \/ ExpEnd
    \/ SkipEducation \/ EducationHeader \/ EduDegree \/ EduInstitution
    \/ EduGpa \/ EduEnd
    \/ SkipSkills \/ SkillsHeader \/ BucketRow \/ BucketLine \/ BucketEnd
    \/ SkillsTail
    \/ SkipProjects \/ ProjectsHeader \/ ProjTitle \/ ProjUrl
    \/ ProjTechLabel \/ ProjTechLine \/ ProjEnd
    \/ SkipAdditional \/ AdditionalHeader \/ LangHeading \/ LangLine
    \/ LangEnd \/ CertHeading \/ CertEntry
    \/ Save
    \/ Throw

Spec == Init /\ [][Next]_vars

(***************************************************************************)
(* Two invocations of generatePDF                                          *)
(*                                                                         *)
(* A call runs without interruption up to the await of the photo block and *)
(* from there to its end; while it waits, or when it has ended, the other  *)
(* call can run.  doc and y are locals of the call.                        *)
(***************************************************************************)
Locals ==
    [data |-> data, pc |-> pc, y |-> y, pages |-> pages, i |-> i, b |-> b,
     j |-> j, ret |-> ret, buckets |-> buckets, trace |-> trace, log |-> log,
     err |-> err]

\* const doc = new jsPDF(...); let y = MARGIN
NewCall(d) ==
    [data |-> d, pc |-> "name", y |-> MARGIN, pages |-> 1, i |-> 0, b |-> 0,
     j |-> 0, ret |-> "none", buckets |-> <<>>, trace |-> <<>>, log |-> <<>>,
     err |-> "none"]

\* the cursor is one for the whole process: the call that runs on finds it
\* where the other call left it
Switch_SharedCursor ==
    /\ pc \in {"photo_wait", "done", "failed"}
    /\ other # NoCall
    /\ other.pc \notin {"done", "failed"}
    /\ data' = other.data /\ pc' = other.pc
    /\ y' = IF other.pc = "name" \/ pc = "failed" THEN other.y ELSE y
    /\ pages' = other.pages
    /\ i' = other.i /\ b' = other.b /\ j' = other.j /\ ret' = other.ret
    /\ buckets' = other.buckets /\ trace' = other.trace /\ log' = other.log
    /\ err' = other.err
    /\ other' = Locals
    /\ active' = 3 - active
    /\ UNCHANGED <<saved, cursorVars, groupVars, linkVars, appVars>>

\* the running call waits for the photo or has ended: the other call starts
\* or runs on, with its own locals
Switch ==
    /\ pc \in {"photo_wait", "done", "failed"}
    /\ other # NoCall
    /\ other.pc \notin {"done", "failed"}
    /\ data' = other.data /\ pc' = other.pc /\ y' = other.y
    /\ pages' = other.pages
    /\ i' = other.i /\ b' = other.b /\ j' = other.j /\ ret' = other.ret
    /\ buckets' = other.buckets /\ trace' = other.trace /\ log' = other.log
    /\ err' = other.err
    /\ other' = Locals
    /\ active' = 3 - active
    /\ UNCHANGED <<saved, cursorVars, groupVars, linkVars, appVars>>

\* documents with a photo, with every section or with none
PhotoDocs ==
    {Doc(PD(n, email, links, "photo.jpg"), RichExperience, RichEducation, RichSkills,
         RichProjects, RichLanguages, RichCertificates) :
        n \in {0, 3, MaxSummaryLines - 20}, email \in {<<>>, AdaEmail},
        links \in {"", "linkedin.com/in/ada"}}
    \cup {EmptyDoc("photo.jpg")}

\* resumeData with no photoUrl, the rest as it is
WithoutPhoto(d) ==
    [d EXCEPT !.personalDetails = [d.personalDetails EXCEPT !.photoUrl = ""]]

\* the same data twice, the same data without the photo, other data
InitPair ==
    /\ \E d \in PhotoDocs :
          /\ data = d
          /\ \E e \in {d, WithoutPhoto(d), EmptyDoc(""), EmptyDoc("photo.jpg")} :
                other = NewCall(e)
    /\ pc = "name"
    /\ y = MARGIN
    /\ pages = 1
    /\ i = 0 /\ b = 0 /\ j = 0
    /\ ret = "none"
    /\ buckets = <<>>
    /\ trace = <<>>
    /\ log = <<>>
    /\ saved = <<>>
    /\ err = "none"
    /\ active = 1
    /\ CursorIdle
    /\ GroupIdle
    /\ LinkIdle
    /\ AppIdle

NextPair == Next \/ Switch

SpecPair == InitPair /\ [][NextPair]_vars

(***************************************************************************)
(* Properties of the cursor                                                *)
(***************************************************************************)
BottomMargin == PAGE_H - MARGIN

\* C1, as stated: after every cursor operation of generatePDF (needSpace,
\* addTopSpacing, every explicit advance) the cursor is at most
\* PAGE_H - MARGIN.
C1_CursorNeverPastBottomMargin ==
    \A k \in 1..Len(trace) : trace[k].y <= BottomMargin

\* C1, amended: the cursor is at most PAGE_H - MARGIN after every needSpace,
\* addTopSpacing, sectionHeader and every advance by a line height; the
\* fixed gaps added after a bullet, an entry, a section, a bucket or a
\* certificate are not checked and leave it at most
\* 1.5 + INTER_BLOCK_GAP above PAGE_H - MARGIN.
C1_CursorWithinMarginExceptGaps ==
    \A k \in 1..Len(trace) :
        /\ trace[k].op # "gap" => trace[k].y <= BottomMargin
        /\ trace[k].y <= BottomMargin + BULLET_GAP + INTER_BLOCK_GAP

\* a trailing gap has pushed the cursor past the bottom margin, and a
\* checked operation of the same step stayed within it
C1_Witness ==
    \E k \in 1..Len(trace) :
        /\ trace[k].op = "gap" /\ trace[k].y > BottomMargin
        /\ \E m \in 1..Len(trace) :
              trace[m].op = "lineAdvance" /\ trace[m].y <= BottomMargin

\* C2: every draw call of generatePDF (text run, bullet glyph, link, header
\* rule) is at a vertical position of at most PAGE_H - MARGIN, also the
\* wrapped lines of a skills bucket, which are drawn after the advance.
C2_NothingDrawnPastBottomMargin ==
    \A k \in 1..Len(log) : log[k].y <= BottomMargin

\* a wrapped line of a skills bucket drawn on a later page than the header
\* of the skills section: a page break fell inside the section
C2_Witness ==
    \E k, m \in 1..Len(log) :
        /\ log[k].sec = "skills" /\ log[k].part = "header"
        /\ log[m].sec = "skills" /\ log[m].part = "names" /\ log[m].line > 1
        /\ log[m].page > log[k].page

\* C3: needSpace(y, required) adds a page and returns MARGIN exactly when
\* y + required > PAGE_H - MARGIN, and otherwise adds no page and returns y;
\* addTopSpacing(y, gap) is that followed by an advance of gap.
C3_NeedSpaceContract ==
    LET breaks == cy + creq > BottomMargin
    IN  /\ cpc = "needSpace" =>
              /\ cres.addPage = breaks
              /\ cres.y = IF breaks THEN MARGIN ELSE cy
        /\ cpc = "addTopSpacing" =>
              /\ cres.addPage = breaks
              /\ cres.y = IF breaks THEN MARGIN + creq ELSE cy + creq

\* needSpace was called with a block that fits exactly, and kept the page
C3_Witness ==
    /\ cpc = "needSpace"
    /\ cy + creq = BottomMargin
    /\ ~cres.addPage

(***************************************************************************)
(* Properties of the skill grouping                                        *)
(***************************************************************************)
\* the letter of a character, whatever its case
LetterOf(c) ==
    CASE c \in {"a", "A"} -> "a"
      [] c \in {"e_acute", "E_acute"} -> "e_acute"
      [] OTHER -> c

IsUpperLetter(c) == c \in {"A", "E_acute", "C"}

ContainsUpper(s) == \E k \in 1..Len(s) : IsUpperLetter(s[k])

\* the words of a string: its maximal runs without whitespace, case folded
RECURSIVE WordsFrom(_, _, _)
WordsFrom(s, k, word) ==
    IF k > Len(s) THEN (IF word = <<>> THEN <<>> ELSE <<word>>)
    ELSE IF s[k] \in {" ", "wide_sp"}
         THEN (IF word = <<>> THEN <<>> ELSE <<word>>) \o WordsFrom(s, k + 1, <<>>)
         ELSE WordsFrom(s, k + 1, Append(word, LetterOf(s[k])))

Words(s) == WordsFrom(s, 1, <<>>)

\* two category strings that differ only in letter case and in leading,
\* trailing or repeated whitespace
SameCategory(s, t) == Words(s) = Words(t)

\* the buckets that hold the p-th input skill
BucketsOfSkill(p) ==
    {k \in 1..Len(gbuckets) :
        \E m \in 1..Len(gbuckets[k].items) : gbuckets[k].items[m] = gskills[p]}

\* C4: skills whose categories differ only in letter case and whitespace
\* land in exactly one bucket, whatever their order, and the label of a
\* bucket contains an uppercase letter if the category of one of its skills
\* does.
C4_VariantsShareOneBucketWithUpperLabel ==
    gpc = "done" =>
        /\ \A p, q \in 1..Len(gskills) :
              SameCategory(gskills[p].category, gskills[q].category)
                  => /\ BucketsOfSkill(p) = BucketsOfSkill(q)
                     /\ Cardinality(BucketsOfSkill(p)) = 1
        /\ \A k \in 1..Len(gbuckets) :
              (\E m \in 1..Len(gbuckets[k].items) :
                    ContainsUpper(gbuckets[k].items[m].category))
                  => ContainsUpper(gbuckets[k].label)

\* the positions in the input of the skills of bucket k, in bucket order
BucketPositions(k) ==
    [m \in 1..Len(gbuckets[k].items) |-> gbuckets[k].items[m].name]

\* C5: the buckets partition the input list, they come in the order in
\* which their keys are first seen, and the skills of a bucket keep their
\* input order.
C5_BucketsPartitionInInputOrder ==
    gpc = "done" =>
        /\ \A p \in 1..Len(gskills) : Cardinality(BucketsOfSkill(p)) = 1
        /\ \A k \in 1..Len(gbuckets) :
              LET pos == BucketPositions(k)
              IN  /\ Len(pos) > 0
                  /\ \A m \in 1..Len(pos) :
                        /\ pos[m] \in 1..Len(gskills)
                        /\ gbuckets[k].items[m] = gskills[pos[m]]
                        /\ m > 1 => pos[m - 1] < pos[m]
                  /\ k > 1 => BucketPositions(k - 1)[1] < pos[1]
        /\ \A p, q \in 1..Len(gskills) :
              (BucketsOfSkill(p) = BucketsOfSkill(q))
                  <=> (normalizeCategoryKey(gskills[p].category)
                          = normalizeCategoryKey(gskills[q].category))

\* three skills grouped into two buckets, one of them with two skills that
\* are not neighbours in the input
C5_Witness ==
    /\ gpc = "done"
    /\ Len(gskills) = 3
    /\ Len(gbuckets) = 2
    /\ BucketPositions(1) = <<1, 3>>

\* the spellings with an ASCII capital among the skills of bucket k, in
\* input order
UpperSpellings(k) ==
    SelectSeq([m \in 1..Len(gbuckets[k].items) |->
                  originalOf(gbuckets[k].items[m].category)],
              hasUppercase)

\* C6, as stated: when two different spellings with an uppercase letter
\* share a key, the label of their bucket is the later one.
C6_LatestUpperSpellingWins ==
    gpc = "done" =>
        \A k \in 1..Len(gbuckets) :
            LET ups == UpperSpellings(k)
            IN  (Len(ups) >= 2 /\ ups[1] # ups[Len(ups)])
                    => gbuckets[k].label = ups[Len(ups)]

\* C6, amended: when two different spellings with an ASCII capital share a
\* key, the label of their bucket is the earliest spelling with an ASCII
\* capital (the first one wins, a later one never replaces it).
C6_FirstUpperSpellingWins ==
    gpc = "done" =>
        \A k \in 1..Len(gbuckets) :
            LET ups == UpperSpellings(k)
            IN  Len(ups) >= 1 => gbuckets[k].label = ups[1]

\* a bucket got two different spellings with a capital
C6_Witness ==
    /\ gpc = "done"
    /\ \E k \in 1..Len(gbuckets) :
          LET ups == UpperSpellings(k)
          IN  Len(ups) >= 2 /\ ups[1] # ups[Len(ups)]

(***************************************************************************)
(* Properties of the sections of generatePDF                               *)
(***************************************************************************)
\* the guard of each section: where it is tested, when its data slice is
\* empty, and where generatePDF goes on
SectionGuards ==
    {[at |-> "summary", empty |-> data.personalDetails.summary = 0,
      next |-> "experience"],
     [at |-> "experience", empty |-> Len(data.experience) = 0, next |-> "education"],
     [at |-> "education", empty |-> Len(data.education) = 0, next |-> "skills"],
     [at |-> "skills", empty |-> Len(data.skills) = 0, next |-> "projects"],
     [at |-> "projects", empty |-> Len(data.projects) = 0, next |-> "additional"],
     [at |-> "additional",
      empty |-> Len(data.languages) = 0 /\ Len(data.certificates) = 0,
      next |-> "save"]}

\* C7: a section whose data slice is empty draws nothing, adds no page and
\* leaves the cursor as it was; generatePDF goes on with the next section.
C7_EmptySectionHasNoEffect ==
    [][\A g \in SectionGuards :
          (pc = g.at /\ g.empty)
              => (y' = y /\ pages' = pages /\ log' = log /\ pc' = g.next)]_vars

\* the Projects step was passed with zero projects, in the middle of a page
C7_Witness ==
    /\ pc = "additional"
    /\ Len(data.projects) = 0
    /\ Len(data.skills) > 0
    /\ y > MARGIN

SecRank(sec) ==
    CASE sec = "identity" -> 1
      [] sec = "summary" -> 2
      [] sec = "experience" -> 3
      [] sec = "education" -> 4
      [] sec = "skills" -> 5
      [] sec = "projects" -> 6
      [] sec = "additional" -> 7

\* languages come before certificates inside the additional section
PartRank(d) ==
    IF d.sec # "additional" \/ d.part \in {"header", "rule"} THEN 0
    ELSE IF d.part \in {"languages", "language"} THEN 1
    ELSE 2

\* the list an entry of a draw call comes from
ListOf(d) ==
    CASE d.sec = "experience" -> data.experience
      [] d.sec = "education" -> data.education
      [] d.sec = "projects" -> data.projects
      [] d.sec = "additional" /\ PartRank(d) = 1 -> data.languages
      [] d.sec = "additional" /\ PartRank(d) = 2 -> data.certificates
      [] OTHER -> <<>>

\* the place of the entry of a draw call in its input list; 0 for a draw
\* call of the section itself, the bucket index in the skills section
EntryPos(d) ==
    IF d.item = 0 \/ ListOf(d) = <<>> THEN d.item
    ELSE CHOOSE k \in 1..Len(ListOf(d)) : ListOf(d)[k].id = d.item

DrawKey(d) == <<SecRank(d.sec), PartRank(d), EntryPos(d)>>

KeyLeq(k1, k2) ==
    \/ k1[1] < k2[1]
    \/ k1[1] = k2[1] /\ k1[2] < k2[2]
    \/ k1[1] = k2[1] /\ k1[2] = k2[2] /\ k1[3] <= k2[3]

\* C8: the draw calls come section by section in the fixed order identity,
\* summary, experience, education, skills, projects, additional, and inside
\* a section entry by entry in input list order.
C8_SectionsAndEntriesInOrder ==
    \A k \in 1..(Len(log) - 1) : KeyLeq(DrawKey(log[k]), DrawKey(log[k + 1]))

\* a finished document with all seven sections and a second project
C8_Witness ==
    /\ pc = "done"
    /\ \A r \in 1..7 : \E k \in 1..Len(log) : SecRank(log[k].sec) = r
    /\ \E k \in 1..Len(log) : log[k].sec = "projects" /\ log[k].item = 2
    /\ \E k \in 1..Len(log) : log[k].part = "cert_name" /\ log[k].item = 2

\* the draw calls of the date range of the k-th experience entry
ExpDateDraws(k) ==
    SelectSeq(log, LAMBDA d : d.sec = "experience" /\ d.part = "dates"
                              /\ d.item = data.experience[k].id)

\* C9: the date range of an experience entry with current = true ends with
\* "Present" whatever its end date, and with current = false it ends with
\* the formatted end date.
C9_CurrentEndsWithPresent ==
    \A k \in 1..Len(data.experience) :
        LET exp == data.experience[k]
            draws == ExpDateDraws(k)
        IN  /\ \A m \in 1..Len(draws) :
                  draws[m].text[Len(draws[m].text)]
                      = IF exp.current THEN "Present" ELSE formatDate(exp.endDate)
            /\ pc = "done" => Len(draws) = 1

\* a current position with an end date supplied has been drawn
C9_Witness ==
    \E k \in 1..Len(data.experience) :
        /\ data.experience[k].current
        /\ data.experience[k].endDate # ""
        /\ Len(ExpDateDraws(k)) = 1

\* what writeBullets has drawn for the k-th experience entry, in order
BulletDraws(k) ==
    SelectSeq(log, LAMBDA d : d.sec = "experience" /\ d.item = data.experience[k].id
                              /\ d.part \in {"glyph", "bullet"})

BulletMarks(k) ==
    [m \in 1..Len(BulletDraws(k)) |->
        <<BulletDraws(k)[m].part, BulletDraws(k)[m].text[1], BulletDraws(k)[m].line>>]

\* one glyph and the wrapped lines 1..n for every non-blank line, in order
RECURSIVE ExpectedMarks(_, _)
ExpectedMarks(description, r) ==
    IF r > Len(description) THEN <<>>
    ELSE (IF description[r] = 0 THEN <<>>
          ELSE <<<<"glyph", r, 1>>>>
               \o [n \in 1..description[r] |-> <<"bullet", r, n>>])
         \o ExpectedMarks(description, r + 1)

IsPrefix(s, t) == Len(s) <= Len(t) /\ s = SubSeq(t, 1, Len(s))

\* (page, y) of the first draw call is above that of the second
Above(d1, d2) == d1.page < d2.page \/ (d1.page = d2.page /\ d1.y < d2.y)

\* C10: every non-blank line of an experience description yields one bullet
\* glyph followed by all its wrapped lines, each drawn once and in order,
\* further down the page or on a later page, also across page breaks.
C10_EveryBulletLineDrawnOnce ==
    \A k \in 1..Len(data.experience) :
        LET draws == BulletDraws(k)
            want == ExpectedMarks(data.experience[k].description, 1)
        IN  /\ IsPrefix(BulletMarks(k), want)
            /\ pc = "done" => BulletMarks(k) = want
            /\ \A m \in 1..(Len(draws) - 1) :
                  IF draws[m].part = "glyph"
                  THEN draws[m].page = draws[m + 1].page /\ draws[m].y = draws[m + 1].y
                  ELSE Above(draws[m], draws[m + 1])

\* a finished document in which a page break fell between two wrapped lines
\* of one bullet of a description with a blank line
C10_Witness ==
    /\ pc = "done"
    /\ \E k \in 1..Len(data.experience) :
          /\ \E r \in 1..Len(data.experience[k].description) :
                data.experience[k].description[r] = 0
          /\ \E m \in 1..(Len(BulletDraws(k)) - 1) :
                /\ BulletDraws(k)[m].part = "bullet"
                /\ BulletDraws(k)[m + 1].part = "bullet"
                /\ BulletDraws(k)[m].page < BulletDraws(k)[m + 1].page

(***************************************************************************)
(* Properties of a call of generatePDF as a whole                          *)
(***************************************************************************)
\* the locals of invocation k
CallLocals(k) == IF active = k THEN Locals ELSE other

\* the artifacts invocation k has saved, without the name of the invocation
ArtifactsOf(k) ==
    LET mine == SelectSeq(saved, LAMBDA a : a.by = k)
    IN  [m \in 1..Len(mine) |->
            [name |-> mine[m].name, pages |-> mine[m].pages,
             content |-> mine[m].content]]

PhotoDrawn(k) ==
    \E m \in 1..Len(CallLocals(k).log) : CallLocals(k).log[m].part = "photo"

\* invocation 1 has a photo URL, invocation 2 the same data without it
SameButPhoto ==
    /\ other # NoCall
    /\ CallLocals(1).data.personalDetails.photoUrl # ""
    /\ CallLocals(2).data = WithoutPhoto(CallLocals(1).data)

\* C11: when the photo cannot be fetched, decoded or embedded the call goes
\* on: the step draws nothing and leaves the cursor where it is, and the
\* call ends with the cursor, the pages, the draw calls and the saved
\* artifact of the call with the same data and no photo URL.
C11_FailedPhotoIsLikeNoPhoto ==
    /\ [][(pc = "photo_wait" /\ active' = active /\ pc' # "photo_wait"
             /\ ~PhotoDrawn(active)')
            => (pc' = "summary" /\ err' = "none" /\ y' = y /\ pages' = pages
                /\ log' = log)]_vars
    /\ [](SameButPhoto /\ CallLocals(1).pc = "done" /\ ~PhotoDrawn(1)
             /\ CallLocals(2).pc = "done"
            => /\ CallLocals(1).y = CallLocals(2).y
               /\ CallLocals(1).pages = CallLocals(2).pages
               /\ CallLocals(1).log = CallLocals(2).log
               /\ Len(ArtifactsOf(1)) = 1
               /\ ArtifactsOf(1) = ArtifactsOf(2))

\* both calls have ended well, the photo of the first one failed, and the
\* document has a second page
C11_Witness ==
    /\ SameButPhoto
    /\ CallLocals(1).pc = "done" /\ CallLocals(2).pc = "done"
    /\ ~PhotoDrawn(1)
    /\ CallLocals(1).pages > 1
    /\ Len(ArtifactsOf(1)) = 1

\* C12: a call that has completed has saved exactly one artifact, and it
\* saved it as its last step; a call that is still running or has ended
\* with an exception has saved none.
C12_OneArtifactPerCompletedCall ==
    other # NoCall =>
        \A k \in {1, 2} :
            Len(ArtifactsOf(k)) = IF CallLocals(k).pc = "done" THEN 1 ELSE 0

\* one call has saved its document, the other one has ended with an
\* exception
C12_Witness ==
    /\ other # NoCall
    /\ \E k \in {1, 2} :
          /\ CallLocals(k).pc = "done" /\ Len(ArtifactsOf(k)) = 1
          /\ CallLocals(3 - k).pc = "failed" /\ Len(ArtifactsOf(3 - k)) = 0

\* throw new Error("Failed to generate PDF. Please try again.") of the
\* version of generatePDF with the try/catch
GenericError == "Failed to generate PDF. Please try again."

\* C13: a call that ends with an exception ends with the one generic error,
\* not with the exception that was raised.
C13_CallerGetsGenericError ==
    pc = "failed" => err = GenericError

\* the two invocations have the same data and the same outcome of the photo
SameCalls ==
    /\ other # NoCall
    /\ CallLocals(1).data = CallLocals(2).data
    /\ CallLocals(1).pc = "done" /\ CallLocals(2).pc = "done"
    /\ PhotoDrawn(1) <=> PhotoDrawn(2)

\* C14: a step of one invocation leaves the locals of the other as they
\* are, an invocation that runs on finds its cursor and its document as it
\* left them, and two invocations with the same data end with the same
\* cursor, pages, draw calls and artifact however they interleave.
C14_InvocationsAreIsolated ==
    /\ [][(other # NoCall /\ active' = active) => other' = other]_vars
    /\ [][active' # active => (other' = Locals /\ Locals' = other)]_vars
    /\ [](SameCalls
            => /\ CallLocals(1).y = CallLocals(2).y
               /\ CallLocals(1).pages = CallLocals(2).pages
               /\ CallLocals(1).log = CallLocals(2).log
               /\ ArtifactsOf(1) = ArtifactsOf(2))

\* both calls waited for their photo, and the second call ended before the
\* first one ran on
C14_Witness ==
    /\ SameCalls
    /\ PhotoDrawn(1)
    /\ Len(saved) = 2 /\ saved[1].by = 2
    /\ CallLocals(1).pages > 1

(***************************************************************************)
(* Properties of the file name                                             *)
(***************************************************************************)
\* the full name of the claim: the two names joined by a space and trimmed,
\* the placeholder when nothing is left
NameToSave(d) ==
    LET joined == trim(d.personalDetails.firstName \o <<" ">>
                       \o d.personalDetails.lastName)
    IN  IF joined = <<>> THEN YourName ELSE joined

\* every whitespace character replaced by an underscore
EachSpaceReplaced(s) ==
    [k \in 1..Len(s) |-> IF s[k] \in {" ", "wide_sp"} THEN "_" ELSE s[k]]

\* every maximal run of whitespace characters replaced by one underscore
RECURSIVE EachRunReplaced(_)
EachRunReplaced(s) ==
    IF s = <<>> THEN <<>>
    ELSE IF Head(s) \notin {" ", "wide_sp"} THEN <<Head(s)>> \o EachRunReplaced(Tail(s))
    ELSE IF Len(s) > 1 /\ s[2] \in {" ", "wide_sp"} THEN EachRunReplaced(Tail(s))
    ELSE <<"_">> \o EachRunReplaced(Tail(s))

\* C15 as stated: the artifact is saved under the file name of the caller
\* when there is one, and otherwise under the full name with every space
\* replaced by an underscore, followed by "_Resume.pdf".
C15_EverySpaceBecomesUnderscore ==
    \A m \in 1..Len(saved) :
        saved[m].name = IF data.filename # "" THEN <<data.filename>>
                        ELSE EachSpaceReplaced(NameToSave(data)) \o <<"_Resume.pdf">>

\* C15, amended: the artifact is saved under the file name of the caller
\* when there is one, and otherwise under the full name with every run of
\* whitespace replaced by one underscore, followed by "_Resume.pdf".
C15_EveryRunBecomesOneUnderscore ==
    \A m \in 1..Len(saved) :
        saved[m].name = IF data.filename # "" THEN <<data.filename>>
                        ELSE EachRunReplaced(NameToSave(data)) \o <<"_Resume.pdf">>

\* saved without a file name of the caller, under a full name with two
\* spaces in a row
C15_Witness ==
    /\ pc = "done" /\ Len(saved) = 1
    /\ data.filename = ""
    /\ data.personalDetails.firstName = <<"a", " ">>
    /\ data.personalDetails.lastName = <<"a">>
    /\ saved[1].name = <<"a", "_", "a", "_Resume.pdf">>

(***************************************************************************)
(* Properties of the link targets                                          *)
(***************************************************************************)
\* the scheme a URL begins with, in lowercase; "" when it begins with none
SchemeOf(u) ==
    IF u = <<>> THEN ""
    ELSE CASE u[1] \in {"http://", "HTTP://"} -> "http://"
           [] u[1] = "https://" -> "https://"
           [] u[1] \in {"mailto:", "MAILTO:"} -> "mailto:"
           [] u[1] = "tel:" -> "tel:"
           [] OTHER -> ""

\* C16: the target of a link is the URL unchanged when the URL has one of
\* the schemes http://, https://, mailto: and tel:, and the URL after
\* "https://" otherwise.
C16_RecognizedSchemeIsKept ==
    lpc = "done" =>
        ltarget = IF SchemeOf(lurl) # "" THEN lurl ELSE <<"https://">> \o lurl

\* C16 with the schemes taken letter for letter as the claim writes them
C16_LowercaseSchemeIsKept ==
    lpc = "done" =>
        ltarget = IF lurl[1] \in {"http://", "https://", "mailto:", "tel:"}
                  THEN lurl ELSE <<"https://">> \o lurl

(***************************************************************************)
(* Properties of the skills without a category                             *)
(***************************************************************************)
\* a string that is empty or has whitespace only
Blank(s) == \A k \in 1..Len(s) : s[k] \in {" ", "wide_sp"}

\* C17: the skills whose category is empty or whitespace only are all in one
\* bucket, and its label is "Category".
C17_BlankCategoriesShareCategoryBucket ==
    gpc = "done" =>
        \A p \in 1..Len(gskills) :
            Blank(gskills[p].category) =>
                /\ Cardinality(BucketsOfSkill(p)) = 1
                /\ \A k \in BucketsOfSkill(p) : gbuckets[k].label = CategoryLabel
                /\ \A q \in 1..Len(gskills) :
                      Blank(gskills[q].category)
                          => BucketsOfSkill(q) = BucketsOfSkill(p)

\* an empty category and a whitespace category grouped, with a skill of a
\* named category between them
C17_Witness ==
    /\ gpc = "done"
    /\ Len(gskills) = 3
    /\ gskills[1].category = <<>>
    /\ ~Blank(gskills[2].category)
    /\ gskills[3].category = <<"wide_sp">>
    /\ Len(gbuckets) = 2
    /\ gbuckets[1].label = CategoryLabel

(***************************************************************************)
(* Properties of the capped lists                                          *)
(***************************************************************************)
\* the draw calls of the entries of the projects section
ProjectDraws == SelectSeq(log, LAMBDA d : d.sec = "projects" /\ d.item # 0)

\* the entries whose title has been drawn, in the order of the draw calls
ProjectTitles ==
    LET titles == SelectSeq(ProjectDraws, LAMBDA d : d.part = "title")
    IN  [m \in 1..Len(titles) |-> EntryPos(titles[m])]

FirstN(n, len) == [m \in 1..(IF n <= len THEN n ELSE len) |-> m]

\* C18: the projects section renders the first 4 entries of the list at
\* most, in input order: no draw call is for a later entry, the loop never
\* stands at one, and it ends after the fourth.
C18_AtMostFourProjects ==
    /\ [](/\ \A m \in 1..Len(ProjectDraws) : EntryPos(ProjectDraws[m]) <= 4
          /\ IsPrefix(ProjectTitles, FirstN(4, Len(data.projects)))
          /\ pc \in {"additional", "save", "done"}
                => ProjectTitles = FirstN(4, Len(data.projects))
          /\ pc \in {"proj_title", "proj_url", "proj_tech", "proj_tech_line",
                     "proj_end"} => i \in 1..4)
    /\ [][(pc = "proj_end" /\ i = 4) => pc' \in {"additional", "failed"}]_vars

\* a finished document of five projects with four of them drawn
C18_Witness ==
    /\ pc = "done"
    /\ Len(data.projects) = 5
    /\ ProjectTitles = <<1, 2, 3, 4>>
    /\ pages > 1

\* the name and meta lines of the certificates, in the order of the draw calls
CertificateLines ==
    LET lines == SelectSeq(log, LAMBDA d : d.sec = "additional"
                                       /\ d.part \in {"cert_name", "cert_meta"})
    IN  [m \in 1..Len(lines) |-> <<lines[m].part, EntryPos(lines[m])>>]

\* a name line and a meta line for each of the first n certificates
NameAndMetaLines(n) ==
    [m \in 1..(2 * n) |->
        <<IF m % 2 = 1 THEN "cert_name" ELSE "cert_meta", (m + 1) \div 2>>]

\* C19: the certificates part renders the first 10 entries of the list at
\* most, in input order, each as a name line followed by a meta line.
C19_AtMostTenCertificates ==
    LET n == IF Len(data.certificates) <= 10 THEN Len(data.certificates) ELSE 10
    IN  /\ IsPrefix(CertificateLines, NameAndMetaLines(n))
        /\ Len(CertificateLines) % 2 = 0
        /\ pc \in {"save", "done"} => CertificateLines = NameAndMetaLines(n)

\* a finished document of eleven certificates with ten of them drawn, on two
\* pages
C19_Witness ==
    /\ pc = "done"
    /\ Len(data.certificates) = 11
    /\ Len(CertificateLines) = 20
    /\ pages > 1

(***************************************************************************)
(* Properties of the protocol of a section                                 *)
(***************************************************************************)
SectionEntries ==
    {"summary", "experience", "education", "skills", "projects", "additional"}

\* the step enters a section that is not empty
StartsSection ==
    pc \in SectionEntries /\ pc' \notin SectionEntries \cup {"save", "failed"}

\* the step is the last one of a section
LeavesSection ==
    /\ pc \notin SectionEntries
    /\ pc' \in {"experience", "education", "skills", "projects", "additional", "save"}

\* addTopSpacing(GAP_BEFORE_SECTION) first (the gap below the cursor, or below
\* the top margin of a new page), then the header at the cursor it returns,
\* before any entry
StartProtocol ==
    /\ Len(trace') = 3
    /\ trace'[1].op = "addTopSpacing"
    /\ trace'[1].y = GAP_BEFORE_SECTION
                     + (IF y + GAP_BEFORE_SECTION > BottomMargin THEN MARGIN ELSE y)
    /\ trace'[2].op = "needSpace" /\ trace'[3].op = "header"
    /\ Len(log') = Len(log) + 2
    /\ log'[Len(log) + 1].sec = pc
    /\ log'[Len(log) + 1].part = "header"
    /\ log'[Len(log) + 1].y = trace'[2].y
    /\ SubSeq(log', 1, Len(log)) = log

\* the last thing the step does is advance the cursor by the gap, with
\* nothing drawn after it
EndsWithGap(gap) ==
    /\ trace' # <<>>
    /\ trace'[Len(trace')].op \in {"gap", "addTopSpacing"}
    /\ trace'[Len(trace')].y = y'
    /\ y' = gap + (IF Len(trace') > 1 THEN trace'[Len(trace') - 1].y ELSE y)

\* C20 as stated: every section that is not empty starts with
\* addTopSpacing(GAP_BEFORE_SECTION) and the section header, and ends with an
\* advance of the cursor by INTER_BLOCK_GAP after its last entry.
C20_EverySectionEndsWithInterBlockGap ==
    [][/\ StartsSection => StartProtocol
       /\ LeavesSection => EndsWithGap(INTER_BLOCK_GAP)]_vars

\* C20, amended: as above, but the additional section ends with the gap of
\* 1.2 of its last certificate when it has certificates.
C20_SectionEndsWithItsGap ==
    [][/\ StartsSection => StartProtocol
       /\ LeavesSection
            => EndsWithGap(IF pc = "cert" THEN (6 * SCALE) \div 5
                           ELSE INTER_BLOCK_GAP)]_vars

\* the last section has been left after a certificate, all sections before
\* it were not empty, and the document has a second page
C20_Witness ==
    /\ pc = "save"
    /\ \A r \in 2..7 : \E k \in 1..Len(log) : SecRank(log[k].sec) = r
    /\ Len(data.certificates) > 0
    /\ trace # <<>> /\ trace[Len(trace)].op = "gap"
    /\ pages > 1

(***************************************************************************)
(* Properties of the lines of an experience entry                          *)
(***************************************************************************)
\* where in the log the draw calls of a part of the k-th experience entry are
ExpPartAt(k, parts) ==
    {m \in 1..Len(log) : /\ log[m].sec = "experience"
                         /\ log[m].item = data.experience[k].id
                         /\ log[m].part \in parts}

\* C21: in every experience entry the title and date line is drawn before
\* the company and location line, and that one before the first bullet, each
\* further down the page or on a later page than the one before.
C21_TitleCompanyBulletsInOrder ==
    \A k \in 1..Len(data.experience) :
        /\ \A d \in ExpPartAt(k, {"dates"}) :
              \E t \in ExpPartAt(k, {"title"}) :
                  t < d /\ log[t].page = log[d].page /\ log[t].y = log[d].y
        /\ \A c \in ExpPartAt(k, {"company", "location"}) :
              \A t \in ExpPartAt(k, {"title", "dates"}) : t < c /\ Above(log[t], log[c])
        /\ \A c \in ExpPartAt(k, {"company"}) : ExpPartAt(k, {"title"}) # {}
        /\ \A g \in ExpPartAt(k, {"glyph", "bullet"}) :
              /\ ExpPartAt(k, {"company"}) # {}
              /\ \A c \in ExpPartAt(k, {"company", "location"}) :
                    c < g /\ Above(log[c], log[g])
        /\ pc = "done" => /\ Cardinality(ExpPartAt(k, {"title"})) = 1
                          /\ Cardinality(ExpPartAt(k, {"company"})) = 1

\* an entry whose title is the last line of a page, its company line the
\* first one of the next page, with a bullet below it
C21_Witness ==
    \E k \in 1..Len(data.experience) :
        /\ \E t \in ExpPartAt(k, {"title"}) : \E c \in ExpPartAt(k, {"company"}) :
              log[t].page < log[c].page
        /\ ExpPartAt(k, {"glyph"}) # {}

\* an entry whose first bullet is on the page after its company line
C21_WitnessBulletOnNextPage ==
    \E k \in 1..Len(data.experience) :
        \E c \in ExpPartAt(k, {"company"}) : \E g \in ExpPartAt(k, {"glyph"}) :
            log[c].page < log[g].page

(***************************************************************************)
(* Properties of the contact line                                          *)
(***************************************************************************)
ContactDraws == SelectSeq(log, LAMBDA d : d.part = "contacts")

\* s without its whitespace characters
RECURSIVE Squeezed(_)
Squeezed(s) ==
    IF s = <<>> THEN <<>>
    ELSE IF s[1] \in {" ", "wide_sp"} THEN Squeezed(Tail(s))
    ELSE <<s[1]>> \o Squeezed(Tail(s))

\* the contact line that the three fields call for
ExpectedContacts(pd) ==
    (IF pd.email # <<>>
     THEN <<[text |-> pd.email, linked |-> TRUE, link |-> <<"mailto:">> \o pd.email]>>
     ELSE <<>>)
    \o (IF pd.phone # <<>>
        THEN <<[text |-> pd.phone, linked |-> TRUE,
                link |-> <<"tel:">> \o Squeezed(pd.phone)]>>
        ELSE <<>>)
    \o (IF pd.location # <<>>
        THEN <<[text |-> pd.location, linked |-> FALSE, link |-> <<>>]>>
        ELSE <<>>)

NoContactField ==
    /\ data.personalDetails.email = <<>>
    /\ data.personalDetails.phone = <<>>
    /\ data.personalDetails.location = <<>>

C22_ContactLine ==
    /\ Len(ContactDraws) <= 1
    /\ \A k \in 1..Len(ContactDraws) :
          /\ ~NoContactField
          /\ ContactDraws[k].text = ExpectedContacts(data.personalDetails)
    /\ (pc \notin {"name", "contacts", "failed"} /\ ~NoContactField) => Len(ContactDraws) = 1

C22_NoLineNoAdvance ==
    (pc = "contacts" /\ NoContactField)
        => (y' = y /\ pages' = pages /\ log' = log /\ pc' = "links")

\* C22: the contact line holds the non-empty ones of email, phone and
\* location, in this order; the email links to mailto:<email>, the phone to
\* tel:<phone without whitespace>, the location is plain text; without any
\* of the three no line is drawn and the cursor stays where it is.
C22_ContactLineAndLinks == []C22_ContactLine /\ [][C22_NoLineNoAdvance]_vars

\* a contact line of all three fields, the phone with whitespace in it
C22_Witness ==
    /\ pc = "done"
    /\ Len(ContactDraws) = 1
    /\ Len(ContactDraws[1].text) = 3
    /\ \E k \in 1..Len(data.personalDetails.phone) :
          data.personalDetails.phone[k] \in {" ", "wide_sp"}
    /\ Len(ContactDraws[1].text[2].link) < 1 + Len(data.personalDetails.phone)

\* a document without contact fields, completed
C22_WitnessNoLine == pc = "done" /\ NoContactField /\ ContactDraws = <<>>

(***************************************************************************)
(* One call from its start to its end                                      *)
(*                                                                         *)
(* Between two awaits a call runs on without waiting for anything, so      *)
(* every step but the settling of the photo is taken as soon as it can be; *)
(* the photo is fetched and encoded by the browser, and the runs looked at *)
(* are those in which it settles.  A statement may throw, and need not.    *)
(***************************************************************************)
LiveSkills ==
    <<[name |-> 1, category |-> <<"A">>], [name |-> 2, category |-> <<"b">>]>>

\* documents with every section and with none, with and without photo URL
LiveDocs ==
    {Doc(PD(n, email, links, photoUrl), RichExperience, RichEducation, LiveSkills,
         RichProjects, RichLanguages, RichCertificates) :
        n \in {0, 3, MaxSummaryLines - 20}, email \in {<<>>, AdaEmail},
        links \in {"", "linkedin.com/in/ada"}, photoUrl \in {"", "photo.jpg"}}
    \cup {EmptyDoc(""), EmptyDoc("photo.jpg")}

InitLive ==
    /\ data \in LiveDocs
    /\ pc = "name"
    /\ y = MARGIN
    /\ pages = 1
    /\ i = 0 /\ b = 0 /\ j = 0
    /\ ret = "none"
    /\ buckets = <<>>
    /\ trace = <<>>
    /\ log = <<>>
    /\ saved = <<>>
    /\ err = "none"
    /\ active = 1
    /\ other = NoCall
    /\ CursorIdle
    /\ GroupIdle
    /\ LinkIdle
    /\ AppIdle

\* the statements that run on their own, between the awaits
RunsOn ==
    \/ DrawName \/ DrawContacts \/ SkipContacts \/ DrawLinks \/ SkipLinks
    \/ StartPhoto \/ SkipPhoto
    \/ ParagraphLine
    \/ SkipSummary \/ SummaryHeader \/ SummaryEnd
    \/ SkipExperience \/ ExperienceHeader \/ ExpTitle \/ ExpCompany
    \/ BulletLine \/ ExpEnd
    \/ SkipEducation \/ EducationHeader \/ EduDegree \/ EduInstitution
    \/ EduGpa \/ EduEnd
    \/ SkipSkills \/ SkillsHeader \/ BucketRow \/ BucketLine \/ BucketEnd
    \/ SkillsTail
    \/ SkipProjects \/ ProjectsHeader \/ ProjTitle \/ ProjUrl
    \/ ProjTechLabel \/ ProjTechLine \/ ProjEnd
    \/ SkipAdditional \/ AdditionalHeader \/ LangHeading \/ LangLine
    \/ LangEnd \/ CertHeading \/ CertEntry
    \/ Save

\* the promise of imageUrlToDataUrl settles
Settles == PhotoLoaded \/ PhotoFailed

SpecLive == InitLive /\ [][Next]_vars /\ WF_vars(RunsOn) /\ WF_vars(Settles)

Suspended == pc = "photo_wait"

Completed == pc = "done" /\ Len(saved) = 1 /\ err = "none"

\* a later statement has thrown
Thrown == pc = "failed" /\ saved = <<>>

\* the call suspends only if there is a photo URL, and only at the photo
C23_OnlyThePhotoSuspends ==
    /\ [](Suspended => data.personalDetails.photoUrl # "")
    /\ [][Suspended' /\ ~Suspended => pc = "photo"]_vars

\* the settling of the photo, with success or with failure, resumes the call
\* at the statement after the photo block
C23_SettlingResumes ==
    [][Suspended => (pc' = "summary" /\ err' = "none" /\ pages' = pages)]_vars

C23_WitnessWithoutPhoto == Completed /\ data.personalDetails.photoUrl = ""

(***************************************************************************)
(* handleDownloadPDF of the review step and of the preview                 *)
(*                                                                         *)
(* Both components have the same handler: it sets isGeneratingPDF, awaits  *)
(* generatePDF on the component's props, logs a failure to the console and *)
(* clears isGeneratingPDF.  The button is disabled while isGeneratingPDF.  *)
(***************************************************************************)
MaxClicks == 2          \* most clicks on Download PDF

InitDownload ==
    /\ data \in LiveDocs
    /\ pc = "idle"
    /\ y = 0
    /\ pages = 0
    /\ i = 0 /\ b = 0 /\ j = 0
    /\ ret = "idle"
    /\ buckets = <<>>
    /\ trace = <<>>
    /\ log = <<>>
    /\ saved = <<>>
    /\ err = "none"
    /\ active = 1
    /\ other = NoCall
    /\ hpc = "ready"
    /\ clicks = 0
    /\ isGeneratingPDF = FALSE
    /\ consoleErrors = <<>>
    /\ notifications = <<>>
    /\ StoreIdle
    /\ BuilderIdle
    /\ CursorIdle
    /\ GroupIdle
    /\ LinkIdle

\* setIsGeneratingPDF(true); await generatePDF({...}): the call starts
handleDownloadPDF ==
    /\ hpc = "ready"
    /\ ~isGeneratingPDF
    /\ clicks < MaxClicks
    /\ clicks' = clicks + 1
    /\ isGeneratingPDF' = TRUE
    /\ hpc' = "awaiting"
    /\ pc' = "name"
    /\ y' = MARGIN
    /\ pages' = 1
    /\ i' = 0 /\ b' = 0 /\ j' = 0
    /\ ret' = "none" /\ buckets' = <<>> /\ trace' = <<>> /\ log' = <<>>
    /\ err' = "none"
    /\ UNCHANGED <<data, saved, active, other, consoleErrors, notifications,
                   cursorVars, groupVars, linkVars, storeVars, builderVars>>

\* catch (error) { console.error("Failed to generate PDF:", error) }
\* finally { setIsGeneratingPDF(false) }
DownloadFailed ==
    /\ hpc = "awaiting"
    /\ pc = "failed"
    /\ consoleErrors' = Append(consoleErrors, err)
    /\ isGeneratingPDF' = FALSE
    /\ hpc' = "ready"
    /\ UNCHANGED <<clicks, notifications, pdfVars, cursorVars, groupVars, linkVars,
                   storeVars, builderVars>>

\* generatePDF has returned: finally { setIsGeneratingPDF(false) }
DownloadDone ==
    /\ hpc = "awaiting"
    /\ pc = "done"
    /\ isGeneratingPDF' = FALSE
    /\ hpc' = "ready"
    /\ UNCHANGED <<clicks, consoleErrors, notifications, pdfVars, cursorVars,
                   groupVars, linkVars, storeVars, builderVars>>

NextDownload == handleDownloadPDF \/ DownloadFailed \/ DownloadDone \/ Next

SpecDownload == InitDownload /\ [][NextDownload]_vars

\* C24: after a download whose generatePDF call failed, the user has been
\* shown one failure notification for it, and the call has left no artifact.
C24_FailedDownloadIsNotifiedOnce ==
    hpc = "ready" =>
        /\ Len(notifications) = Len(consoleErrors)
        /\ Len(saved) + Len(consoleErrors) = clicks

\* what the handlers do: a failed download is logged to the console once,
\* leaves no artifact, and shows the user nothing but the button enabled again
C24_FailedDownloadIsOnlyLogged ==
    /\ notifications = <<>>
    /\ hpc = "ready" =>
          /\ ~isGeneratingPDF
          /\ Len(saved) + Len(consoleErrors) = clicks

(***************************************************************************)
(* MemStorage (server/storage.ts)                                          *)
(*                                                                         *)
(* A resume is a function on Fields.  A section that the object does not   *)
(* have is "absent"; a payload is a function on Sections, "absent" where   *)
(* it has no such key.  UUIDs are numbered in the order randomUUID returns *)
(* them: no two calls return the same one.  The clock is read by new       *)
(* Date() and is one later at every call that reads it.                    *)
(***************************************************************************)
Sections ==
    {"personalDetails", "experience", "education", "skills", "projects",
     "languages", "certificates"}

Fields == Sections \cup {"id", "createdAt", "updatedAt"}

\* the result of a method that returns undefined
NoResume ==
    [f \in Fields |-> IF f \in Sections THEN "absent" ELSE 0]

Found(r) == [found |-> TRUE, value |-> r]
Undefined == [found |-> FALSE, value |-> NoResume]

\* this.resumes.get(id)
MapGet(id) == IF id \in DOMAIN resumes THEN Found(resumes[id]) ELSE Undefined

\* this.resumes.set(id, resume)
MapSet(id, resume) == (id :> resume) @@ resumes

\* this.resumes.delete(id)
MapDelete(id) == [k \in DOMAIN resumes \ {id} |-> resumes[k]]

\* the other version of the class: const id = randomUUID(); const now = new
\* Date(); resume = {...insertResume, id, createdAt: now, updatedAt: now}
createResume_other(insertResume) ==
    LET id == uuids + 1
        resume == [f \in Fields |->
                      CASE f = "id" -> id
                        [] f = "createdAt" -> clock
                        [] f = "updatedAt" -> clock
                        [] OTHER -> insertResume[f]]
    IN  [resumes |-> MapSet(id, resume), uuids |-> uuids + 2, result |-> Found(resume)]

\* const id = randomUUID(); resume = {...insertResume, id: String(randomUUID()),
\* createdAt: new Date(), updatedAt: new Date()}; this.resumes.set(id, resume)
createResume(insertResume) ==
    LET id == uuids + 1
        resume == [f \in Fields |->
                      CASE f = "id" -> uuids + 2
                        [] f = "createdAt" -> clock
                        [] f = "updatedAt" -> clock
                        [] OTHER -> insertResume[f]]
    IN  [resumes |-> MapSet(id, resume), uuids |-> uuids + 2, result |-> Found(resume)]

\* the update replaces the resume by the payload
updateResume_WithoutExisting(id, updates) ==
    LET existing == MapGet(id)
        updated == [f \in Fields |->
                       CASE f = "updatedAt" -> clock
                         [] f \in Sections -> updates[f]
                         [] OTHER -> existing.value[f]]
    IN  IF ~existing.found
        THEN [resumes |-> resumes, result |-> Undefined]
        ELSE [resumes |-> MapSet(id, updated), result |-> Found(updated)]

\* {...existing, ...updates,
\*  personalDetails: updates.personalDetails ?? existing.personalDetails,
\*  updatedAt: new Date()}
updateResume(id, updates) ==
    LET existing == MapGet(id)
        updated == [f \in Fields |->
                       CASE f = "updatedAt" -> clock
                         [] f = "personalDetails" ->
                              IF updates[f] \in {"absent", "null"}
                              THEN existing.value[f] ELSE updates[f]
                         [] f \in Sections ->
                              IF updates[f] # "absent" THEN updates[f]
                              ELSE existing.value[f]
                         [] OTHER -> existing.value[f]]
    IN  IF ~existing.found
        THEN [resumes |-> resumes, result |-> Undefined]
        ELSE [resumes |-> MapSet(id, updated), result |-> Found(updated)]

(***************************************************************************)
(* The methods of MemStorage called one after the other                    *)
(***************************************************************************)
MaxCalls == 3           \* most calls of createResume and updateResume

\* payloads with any of the first two sections; personalDetails can be null
StorePayloads ==
    {[f \in Sections |->
         CASE f = "personalDetails" -> pd
           [] f = "experience" -> ex
           [] OTHER -> "absent"] :
        pd \in {"absent", "null", "a"}, ex \in {"absent", "b"}}

\* the ids a caller can ask for: the keys, the ids of the resumes, and one more
KnownIds == 1..(uuids + 1)

InitStore ==
    /\ resumes = <<>>
    /\ uuids = 0
    /\ clock = 0
    /\ sres = NoStorageCall
    /\ HandlerIdle
    /\ BuilderIdle
    /\ CursorIdle
    /\ GroupIdle
    /\ LinkIdle
    /\ PdfIdle

CallGetResume ==
    /\ \E id \in KnownIds :
          sres' = [n |-> sres.n, op |-> "getResume", id |-> id, result |-> MapGet(id)]
    /\ UNCHANGED <<resumes, uuids, clock, handlerVars, builderVars, cursorVars,
                   groupVars, linkVars, pdfVars>>

CallCreateResume ==
    /\ sres.n < MaxCalls
    /\ \E insertResume \in StorePayloads :
          LET c == createResume(insertResume)
          IN  /\ resumes' = c.resumes
              /\ uuids' = c.uuids
              /\ sres' = [n |-> sres.n + 1, op |-> "createResume",
                          arg |-> insertResume, result |-> c.result]
    /\ clock' = clock + 1
    /\ UNCHANGED <<handlerVars, builderVars, cursorVars, groupVars, linkVars, pdfVars>>

CallUpdateResume ==
    /\ sres.n < MaxCalls
    /\ \E id \in KnownIds : \E updates \in StorePayloads :
          LET u == updateResume(id, updates)
          IN  /\ resumes' = u.resumes
              /\ sres' = [n |-> sres.n + 1, op |-> "updateResume", id |-> id,
                          arg |-> updates, result |-> u.result]
    /\ clock' = clock + 1
    /\ UNCHANGED <<uuids, handlerVars, builderVars, cursorVars, groupVars, linkVars,
                   pdfVars>>

CallDeleteResume ==
    /\ \E id \in KnownIds :
          /\ resumes' = MapDelete(id)
          /\ sres' = [n |-> sres.n, op |-> "deleteResume", id |-> id,
                      result |-> [found |-> id \in DOMAIN resumes, value |-> NoResume]]
    /\ UNCHANGED <<uuids, clock, handlerVars, builderVars, cursorVars, groupVars,
                   linkVars, pdfVars>>

NextStore ==
    \/ CallGetResume
    \/ CallCreateResume
    \/ CallUpdateResume
    \/ CallDeleteResume

SpecStore == InitStore /\ [][NextStore]_vars

(***************************************************************************)
(* Properties of MemStorage                                                *)
(***************************************************************************)
\* the resume that the last call returned
Returned == sres.result.value

\* C26: after createResume has returned r, getResume(r.id) returns r, and
\* updateResume(r.id, ...) and deleteResume(r.id) find it: r is in the map
\* under r.id.
C26_CreatedResumeIsFoundByItsId ==
    sres.op = "createResume" =>
        /\ MapGet(Returned["id"]) = Found(Returned)
        /\ Returned["id"] \in DOMAIN resumes

\* what createResume does: r is in the map, under a UUID that is not r.id
C26_CreatedResumeIsStoredUnderAnotherId ==
    sres.op = "createResume" =>
        /\ \E k \in DOMAIN resumes : resumes[k] = Returned /\ k # Returned["id"]
        /\ Returned["id"] \notin DOMAIN resumes

\* the step is a call of updateResume
UpdateCalled == sres'.op = "updateResume" /\ sres'.n = sres.n + 1

\* C30: updateResume(id, updates) on an id of the map changes, in the resume
\* under that id, only sections that updates has and updatedAt; the id, the
\* createdAt and the sections that updates does not have stay, and so does
\* every other resume; it returns the updated resume.  On an id that is not
\* in the map it returns undefined and the map stays as it is.
C30_UpdateChangesOnlyWhatItIsGiven ==
    [][UpdateCalled =>
        LET id == sres'.id
            updates == sres'.arg
        IN  IF id \in DOMAIN resumes
            THEN /\ DOMAIN resumes' = DOMAIN resumes
                 /\ \A k \in DOMAIN resumes \ {id} : resumes'[k] = resumes[k]
                 /\ \A f \in Fields :
                       resumes'[id][f] # resumes[id][f] =>
                           \/ f = "updatedAt"
                           \/ f \in Sections /\ updates[f] # "absent"
                 /\ \A f \in Sections :
                       updates[f] \notin {"absent", "null"} =>
                           resumes'[id][f] = updates[f]
                 /\ sres'.result = Found(resumes'[id])
            ELSE /\ resumes' = resumes
                 /\ sres'.result = Undefined]_vars

\* an update of one of two resumes that leaves a section of it alone
C30_Witness ==
    /\ sres.op = "updateResume"
    /\ sres.result.found
    /\ Cardinality(DOMAIN resumes) = 2
    /\ \E f \in Sections : sres.arg[f] = "absent" /\ Returned[f] # "absent"
    /\ \E f \in Sections : sres.arg[f] \notin {"absent", "null"}

\* an update under an id that the map does not have
C30_WitnessUnknownId ==
    /\ sres.op = "updateResume"
    /\ ~sres.result.found
    /\ resumes # <<>>

(***************************************************************************)
(* ResumeBuilder and the resume routes                                     *)
(*                                                                         *)
(* A click runs its handler up to the first await: the handler reads       *)
(* currentStep and resumeId as they were rendered, and the request of the  *)
(* save is on its way.  The server handles one request at a time.  When    *)
(* the response is there the rest of the handler runs without interruption.*)
(* None of the steps 1 to 4 is given isSaving, so their buttons stay       *)
(* enabled while a save is pending.  The saves looked at are those of Next *)
(* and Previous; a request or its response can be lost at any time.        *)
(***************************************************************************)
MaxSaves == 5           \* most calls of saveResume in a session
MaxPending == 2         \* most saves that are pending at a time

totalSteps == 5

\* the sections of buildPayloadForStep(step)
StepSections(step) ==
    CASE step = 1 -> {"personalDetails"}
      [] step = 2 -> {"experience"}
      [] step = 3 -> {"education"}
      [] step = 4 -> {"skills", "projects", "languages", "certificates"}
      [] OTHER -> Sections

\* the payload of saveResume(false) called at the step
buildPayloadForStep(step) ==
    [f \in Sections |-> IF f \in StepSections(step) THEN "a" ELSE "absent"]

InFlight ==
    {"post", "patch", "created", "patched", "not_found", "fallback_post",
     "fallback_created"}

Pending(k) == saves[k].stage \in InFlight

\* createResumeMutation.isPending || updateResumeMutation.isPending
isSaving == \E k \in 1..Len(saves) : Pending(k)

NumPending == Cardinality({k \in 1..Len(saves) : Pending(k)})

\* saveResume up to its await: PATCH with a resumeId, POST without
NewSave(kind) ==
    [kind |-> kind, step |-> currentStep, rid |-> resumeId,
     stage |-> IF resumeId # 0 THEN "patch" ELSE "post", newId |-> 0]

IsSettled(r) == r.stage \in {"ok", "failed"}

IsPending(r) == r.stage \in InFlight

\* the order in which the settled saves are kept: by kind, then by outcome
SaveRank(r) ==
    (IF r.kind = "next" THEN 0 ELSE 2) + (IF r.stage = "ok" THEN 0 ELSE 1)

\* saveResume has returned: ok is what it returns, its closure is gone.
\* saves holds the settled saves first, by kind and outcome, then the pending
\* ones in the order of their clicks.
Settled(k, ok) ==
    LET d == [kind |-> saves[k].kind, step |-> 0, rid |-> 0,
              stage |-> IF ok THEN "ok" ELSE "failed", newId |-> 0]
        rest == [m \in 1..(Len(saves) - 1) |-> IF m < k THEN saves[m] ELSE saves[m + 1]]
        before == SelectSeq(rest, LAMBDA r : IsSettled(r) /\ SaveRank(r) <= SaveRank(d))
        after == SelectSeq(rest, LAMBDA r : IsSettled(r) /\ SaveRank(r) > SaveRank(d))
    IN  before \o <<d>> \o after \o SelectSeq(rest, IsPending)

InitBuilder ==
    /\ currentStep = 1
    /\ resumeId = 0
    /\ saves = <<>>
    /\ StoreIdle
    /\ HandlerIdle
    /\ CursorIdle
    /\ GroupIdle
    /\ LinkIdle
    /\ PdfIdle

CanClick == Len(saves) < MaxSaves /\ NumPending < MaxPending

\* the step moves on at the click, before the save
handleNext_WithoutWaiting ==
    /\ CanClick
    /\ currentStep < totalSteps
    /\ currentStep' = currentStep + 1
    /\ saves' = Append(saves, NewSave("next"))
    /\ UNCHANGED <<resumeId, storeVars, handlerVars, cursorVars, groupVars, linkVars,
                   pdfVars>>

\* handleNext up to its await: if (currentStep < 5) await saveResume(false)
handleNext ==
    /\ CanClick
    /\ currentStep < totalSteps
    /\ saves' = Append(saves, NewSave("next"))
    /\ UNCHANGED <<currentStep, resumeId, storeVars, handlerVars, cursorVars,
                   groupVars, linkVars, pdfVars>>

\* handlePrevious: if (currentStep > 1) { setCurrentStep((s) => s - 1);
\* saveResume(false).catch(() => {}) }
handlePrevious ==
    /\ CanClick
    /\ currentStep > 1
    /\ currentStep' = currentStep - 1
    /\ saves' = Append(saves, NewSave("previous"))
    /\ UNCHANGED <<resumeId, storeVars, handlerVars, cursorVars, groupVars, linkVars,
                   pdfVars>>

\* app.post("/api/resumes"): storage.createResume(validatedData), res.json(resume)
PostResumes ==
    \E k \in 1..Len(saves) :
        /\ saves[k].stage \in {"post", "fallback_post"}
        /\ LET c == createResume(buildPayloadForStep(saves[k].step))
           IN  /\ resumes' = c.resumes
               /\ uuids' = c.uuids
               /\ saves' = [saves EXCEPT
                               ![k].stage = IF saves[k].stage = "post" THEN "created"
                                            ELSE "fallback_created",
                               ![k].newId = c.result.value["id"]]
        /\ clock' = clock + 1
        /\ UNCHANGED <<sres, currentStep, resumeId, handlerVars, cursorVars, groupVars,
                       linkVars, pdfVars>>

\* app.patch("/api/resumes/:id"): storage.updateResume(req.params.id,
\* validatedData); 404 if it returns undefined
PatchResume ==
    \E k \in 1..Len(saves) :
        /\ saves[k].stage = "patch"
        /\ LET u == updateResume(saves[k].rid, buildPayloadForStep(saves[k].step))
           IN  /\ resumes' = u.resumes
               /\ clock' = IF u.result.found THEN clock + 1 ELSE clock
               /\ saves' = [saves EXCEPT
                               ![k].stage = IF u.result.found THEN "patched"
                                            ELSE "not_found"]
        /\ UNCHANGED <<uuids, sres, currentStep, resumeId, handlerVars, cursorVars,
                       groupVars, linkVars, pdfVars>>

\* the handler goes on after saveResume: handleNext moves to the next step
\* if the save is ok
AfterSave(k, ok) ==
    /\ saves' = Settled(k, ok)
    /\ currentStep' = IF ok /\ saves[k].kind = "next" THEN currentStep + 1
                      ELSE currentStep

\* the response of a POST is there: setResumeId(newId), saveResume returns true
PostResponse ==
    \E k \in 1..Len(saves) :
        /\ saves[k].stage \in {"created", "fallback_created"}
        /\ resumeId' = saves[k].newId
        /\ AfterSave(k, TRUE)
        /\ UNCHANGED <<storeVars, handlerVars, cursorVars, groupVars, linkVars, pdfVars>>

\* the response of the PATCH is there: on 404 the payload is sent as a POST,
\* else saveResume returns true
PatchResponse ==
    \E k \in 1..Len(saves) :
        /\ saves[k].stage \in {"patched", "not_found"}
        /\ IF saves[k].stage = "not_found"
           THEN /\ saves' = [saves EXCEPT ![k].stage = "fallback_post"]
                /\ UNCHANGED currentStep
           ELSE AfterSave(k, TRUE)
        /\ UNCHANGED <<resumeId, storeVars, handlerVars, cursorVars, groupVars,
                       linkVars, pdfVars>>

\* a fetch of the save rejects, before or after the server has handled the
\* request: the mutation throws and saveResume returns false
FetchFails ==
    \E k \in 1..Len(saves) :
        /\ Pending(k)
        /\ AfterSave(k, FALSE)
        /\ UNCHANGED <<resumeId, storeVars, handlerVars, cursorVars, groupVars,
                       linkVars, pdfVars>>

NextBuilder ==
    \/ handleNext
    \/ handlePrevious
    \/ PostResumes
    \/ PatchResume
    \/ PostResponse
    \/ PatchResponse
    \/ FetchFails

SpecBuilder == InitBuilder /\ [][NextBuilder]_vars

(***************************************************************************)
(* Properties of the wizard                                                *)
(***************************************************************************)
\* how many of the saves s are of the kind and in one of the stages
CountSaves(s, kind, stages) ==
    Cardinality({k \in 1..Len(s) : s[k].kind = kind /\ s[k].stage \in stages})

AnyStage == InFlight \cup {"ok", "failed"}

\* the step is one past the first for every Next whose save has succeeded,
\* and one back for every Previous, whatever has become of its save
C27_StepCountsSavedNexts ==
    currentStep = 1 + CountSaves(saves, "next", {"ok"})
                    - CountSaves(saves, "previous", AnyStage)

\* a step forward is the end of a Next whose save has succeeded
C27_NextWaitsForItsSave ==
    currentStep' > currentStep =>
        /\ currentStep' = currentStep + 1
        /\ Len(saves') = Len(saves)
        /\ CountSaves(saves', "next", {"ok"}) = CountSaves(saves, "next", {"ok"}) + 1
        /\ \E k \in 1..Len(saves) :
              /\ saves[k].kind = "next"
              /\ saves[k].stage \in {"created", "fallback_created", "patched"}

\* a click on Next and a failed save of a Next leave the step where it is
C27_FailedNextStays ==
    \/ CountSaves(saves', "next", {"failed"}) > CountSaves(saves, "next", {"failed"})
    \/ CountSaves(saves', "next", AnyStage) > CountSaves(saves, "next", AnyStage)
    => currentStep' = currentStep

\* a step back is a click on Previous, whose save has only been started
C27_PreviousDoesNotWait ==
    currentStep' < currentStep =>
        /\ currentStep' = currentStep - 1
        /\ saves' = Append(saves, saves'[Len(saves')])
        /\ saves'[Len(saves')].kind = "previous"
        /\ saves'[Len(saves')].stage \in {"post", "patch"}

\* C27: Next moves the wizard one step on only when the save it started has
\* succeeded, and leaves it where it is when the save fails; Previous moves
\* it one step back at the click, while its save is still pending.
C27_NextIsStrictPreviousIsNot ==
    /\ []C27_StepCountsSavedNexts
    /\ [][C27_NextWaitsForItsSave]_vars
    /\ [][C27_FailedNextStays]_vars
    /\ [][C27_PreviousDoesNotWait]_vars

\* a Next has failed, another has succeeded, and the wizard has gone back
\* with the save of the Previous still pending
C27_Witness ==
    /\ CountSaves(saves, "next", {"failed"}) > 0
    /\ CountSaves(saves, "next", {"ok"}) > 0
    /\ CountSaves(saves, "previous", InFlight) > 0

\* C28: currentStep is one of the steps 1 to 5 of the wizard, whatever the
\* order of the clicks on Next and Previous and of the ends of their saves.
C28_StepStaysWithinTheWizard == currentStep \in 1..totalSteps

\* two Nexts clicked at the last step but one have both been saved
C28_PastTheLastStep == currentStep > totalSteps /\ ~isSaving

\* C29: a session creates at most one resume: the first save that succeeds
\* creates it and sets resumeId to its id, and every later save finds it
\* under that id.
C29_AtMostOneResumePerSession ==
    /\ Cardinality(DOMAIN resumes) <= 1
    /\ resumeId # 0 => resumeId \in DOMAIN resumes

====
